---- MODULE Spec2Model ----
(***************************************************************************)
(* Model of the rockslide container registry: the filesystem content store *)
(* (src/src/registry/storage.rs) and the HTTP handlers on top of it        *)
(* (src/src/registry.rs).                                                  *)
(*                                                                         *)
(* Granularity.  Every request is served by its own task.  A task takes    *)
(* one step per filesystem operation it awaits; the synchronous code in    *)
(* front of an awaited operation belongs to the same step.  Tasks of       *)
(* different requests interleave freely between steps.                     *)
(*                                                                         *)
(* Filesystem.  A partial file is an inode that is named by the upload id  *)
(* that created it.  `uploads` holds the directory entries of uploads/,    *)
(* `blobs` maps a blob name to the inode it names, `content` holds the     *)
(* bytes of every inode.  An open file handle keeps pointing at its inode  *)
(* when the directory entry is renamed.                                    *)
(*                                                                         *)
(* SHA-256 is modelled as an injective numbering of byte strings, i.e.     *)
(* collisions are assumed away; Display for Digest is the decimal string   *)
(* of that number.                                                         *)
(*                                                                         *)
(* Manifests.  `manifests` holds the files of manifests/ and `links` the   *)
(* symlinks under tags/, both by their path from the root of the store; a  *)
(* symlink holds a relative target that is resolved from its directory.    *)
(* tokio::fs::write is two steps, File::create and write_all.  The blob    *)
(* uploads (UploadSpec) and the manifest pushes (ManifestSpec) touch       *)
(* disjoint parts of the store and are explored separately.                *)
(***************************************************************************)
EXTENDS Integers, Sequences, FiniteSets, TLC

\* ---------------------------------------------------------------- bounds
\* The longest byte string, summed over all uploads, that clients submit.
MaxLen == 2

\* The byte values, the upload ids (Uuid::new_v4 hands them out in this
\* order) and the request slots of the model.
Bytes == {1, 2}
UploadIds == {1, 2}
Tasks == {1, 2}

RECURSIVE SeqsUpTo(_)
SeqsUpTo(n) ==
    IF n = 0 THEN {<<>>}
    ELSE LET shorter == SeqsUpTo(n - 1)
         IN  shorter \cup {Append(s, b) : s \in {x \in shorter : Len(x) = n - 1}, b \in Bytes}

Contents == SeqsUpTo(MaxLen)

\* ------------------------------------------------------------- digests
\* Digest::from_contents, and the hashing loop of finalize_upload.
RECURSIVE SHA256(_)
SHA256(bytes) ==
    IF bytes = <<>> THEN 0
    ELSE SHA256(SubSeq(bytes, 1, Len(bytes) - 1)) * (Cardinality(Bytes) + 1) + bytes[Len(bytes)]

\* impl Display for Digest
DigestDisplay(digest) == ToString(digest)

\* The digests a client names in ?digest=...: those of <<1>>, <<1, 2>>, ...
Ramp(n) == [i \in 1..n |-> ((i - 1) % Cardinality(Bytes)) + 1]

DigestInputs == {SHA256(Ramp(n)) : n \in 1..MaxLen}

\* ------------------------------------------------------------ variables
VARIABLES
    nextUpload,   \* number of upload ids handed out so far (Uuid::new_v4)
    uploads,      \* ids u for which uploads/<u>.partial exists
    content,      \* inode (named by its upload id) -> bytes
    blobs,        \* blob name (Display of a digest) -> inode
    task,         \* request slot -> state of the request it is serving
    req,          \* the request received by the latest step, or NoReq
    resp,         \* the response produced by the latest step, or NoResp
    sent,         \* upload id -> the non-empty bodies of its PATCHes, in order
    sequential,   \* upload id -> its requests so far never overlapped or failed
    manifests,    \* path of a file of manifests/ -> bytes
    tagDirs,      \* the image locations whose directory under tags/ exists
    links,        \* path of a symlink under tags/ -> the target it holds
    hookFutures,  \* the futures of hook calls that the latest step created
    put,          \* the put_manifest call that the latest step completed
    tagged,       \* the tag paths that a put_manifest has succeeded for
    returned,     \* the digests that a put_manifest has returned
    overtaken,    \* per task: the digests of the puts to the tag of its own
                  \* put that have succeeded since that put began
    last,         \* the latest put_manifest that succeeded on its own
    master_key,   \* the MasterKey of the configuration
    routing_table,\* the RoutingTable behind the reverse proxy's RwLock
    lock,         \* that RwLock: the tasks that hold it for reading, for writing
    configs,      \* path of a file under configs/ -> the TOML it holds
    volume_dirs,  \* the directories that exist under volumes/
    podman,       \* the podman commands that the latest step ran
    upstream,     \* the requests that the latest step sent to a container
    installed,    \* the table of the latest update_containers that returned
    listed        \* order: the tasks that hold a listing of podman ps, the
                  \* oldest listing first; outdated: those of them with a
                  \* listing older than that of a table put in place since

vars == <<nextUpload, uploads, content, blobs, task, req, resp, sent, sequential,
          manifests, tagDirs, links, hookFutures, put, tagged, returned,
          overtaken, last,
          master_key, routing_table, lock, configs, volume_dirs, podman, upstream,
          installed, listed>>

fsVars == <<nextUpload, uploads, content, blobs>>

manifestVars == <<manifests, tagDirs, links, hookFutures, put, tagged, returned,
                  overtaken, last>>

uploadVars == <<nextUpload, uploads, content, blobs, sent, sequential>>

\* What lies beyond the registry: the orchestrator and the reverse proxy.
platformVars ==
    <<master_key, routing_table, lock, configs, volume_dirs, podman, upstream, installed,
      listed>>

\* The content store and the history of its requests.
storeVars == <<uploadVars, manifestVars>>

\* -------------------------------------------------------------- errors
\* impl IntoResponse for storage::Error
ErrorIntoResponse(err) ==
    CASE err = "UploadDoesNotExit" -> 404
      [] err \in {"InvalidManifest", "NotATag"} -> 400
      [] OTHER -> 500

\* impl<E: Into<anyhow::Error>> From<E> for AppError: every error that a
\* handler propagates with `?` becomes AppError::Internal.
AppErrorFrom(err) == [variant |-> "Internal", source |-> err]

\* impl IntoResponse for AppError
AppErrorIntoResponse(appError) ==
    IF appError.variant = "NotFound" THEN 404 ELSE 500

NoReq == [kind |-> "none", hasRange |-> FALSE, contentLength |-> -1]

NoResp == [kind |-> "none", status |-> 0, err |-> "-", upload |-> 0,
           range |-> -1, digest |-> "-"]

ErrResp(kind, u, err) ==
    [kind |-> kind, status |-> AppErrorIntoResponse(AppErrorFrom(err)),
     err |-> err, upload |-> u, range |-> -1, digest |-> "-"]

\* ---------------------------------------------------------------- tasks
NoReference == [kind |-> "none", tag |-> "", digest |-> 0]

NoManifestReference ==
    [location |-> [repository |-> "", image |-> ""], reference |-> NoReference]

IdleTask == [kind |-> "idle", pc |-> "idle", upload |-> 0, body |-> <<>>,
             completed |-> 0, digest |-> 0, actual |-> 0,
             manifest_reference |-> NoManifestReference]

\* Ok(None) of a read, or the 404 of a handler.
NotFound == [found |-> FALSE, bytes |-> <<>>]

NoLast == [key |-> <<>>, digest |-> "-", resolved |-> NotFound, again |-> FALSE]

NoPut == [manifest_reference |-> NoManifestReference, manifest |-> <<>>,
          result |-> "none", digest |-> 0, overtook |-> {}]

InFlight(u) ==
    \E t \in Tasks : task[t].kind \in {"patch", "finalize"} /\ task[t].upload = u

\* A new request is served by the first free slot.
Free(t) ==
    /\ task[t].kind = "idle"
    /\ \A other \in Tasks : other < t => task[other].kind # "idle"

\* A step of a request in flight that ends it with a response.
Finish(t, response) ==
    /\ task' = [task EXCEPT ![t] = IdleTask]
    /\ req' = NoReq
    /\ resp' = response

\* A step of a request in flight that does not end it.
Continue(t, next) ==
    /\ task' = [task EXCEPT ![t] = next]
    /\ req' = NoReq
    /\ resp' = NoResp

\* The step that receives a request and answers it at once.
Respond(t, response) ==
    /\ task' = task
    /\ resp' = response

\* The registry over an empty store.
RegistryInit ==
    /\ nextUpload = 0
    /\ uploads = {}
    /\ content = [u \in UploadIds |-> <<>>]
    /\ blobs = <<>>
    /\ task = [t \in Tasks |-> IdleTask]
    /\ req = NoReq
    /\ resp = NoResp
    /\ sent = [u \in UploadIds |-> <<>>]
    /\ sequential = [u \in UploadIds |-> TRUE]
    /\ manifests = <<>>
    /\ tagDirs = {}
    /\ links = <<>>
    /\ hookFutures = <<>>
    /\ put = NoPut
    /\ tagged = {}
    /\ returned = {}
    /\ overtaken = [t \in Tasks |-> {}]
    /\ last = NoLast

\* MasterKey::default, RoutingTable::default, no command run yet.
\* No task holds a listing of podman ps.
NoListing == [order |-> <<>>, outdated |-> {}]

PlatformInit ==
    /\ master_key = [variant |-> "Locked", key |-> <<>>]
    /\ routing_table = [path_maps |-> <<>>, domain_maps |-> <<>>]
    /\ lock = [readers |-> {}, writer |-> {}]
    /\ configs = <<>>
    /\ volume_dirs = {}
    /\ podman = <<>>
    /\ upstream = <<>>
    /\ installed = [path_maps |-> <<>>, domain_maps |-> <<>>]
    /\ listed = NoListing

Init == RegistryInit /\ PlatformInit

\* ------------------------------------------------------- POST .../uploads/
\* impl IntoResponse for UploadState; `completed` is -1 for None.  The Range
\* header "0-<completed>" is recorded by its upper end.
UploadStateIntoResponse(kind, u, completed) ==
    [kind |-> kind, status |-> 202, err |-> "-", upload |-> u,
     range |-> completed, digest |-> "-"]

\* One file for the partials of all uploads.
upload_path_shared(upload) == 1

\* FilesystemStorage::upload_path: uploads/<upload>, a file of its own for
\* every upload id.
upload_path(upload) == upload

\* upload_new + FilesystemStorage::begin_new_upload
upload_new(t) ==
    /\ UNCHANGED <<manifestVars, platformVars>>
    /\ Free(t)
    /\ nextUpload + 1 \in UploadIds
    /\ LET u == nextUpload + 1
       IN  /\ nextUpload' = u
           /\ uploads' = uploads \cup {upload_path(u)}
           /\ content' = [content EXCEPT ![upload_path(u)] = <<>>]
           /\ resp' = UploadStateIntoResponse("upload_new", u, -1)
    /\ req' = [NoReq EXCEPT !.kind = "upload_new"]
    /\ UNCHANGED <<blobs, task, sent, sequential>>

\* ------------------------------------------------- PATCH .../uploads/<id>
RangeRejectedNever(hasRange) == FALSE

\* upload_add_chunk: `request.headers().contains_key(RANGE)`
RangeRejected(hasRange) == hasRange

\* FilesystemStorage::get_upload_writer / finalize_upload: `!path.exists()`
UploadExists(u) == upload_path(u) \in uploads

RECURSIVE Flatten(_)
Flatten(bodies) ==
    IF bodies = <<>> THEN <<>> ELSE Head(bodies) \o Flatten(Tail(bodies))

\* The bytes that the partial files hold, and those that the PATCHes in
\* flight have still to write.
RECURSIVE StoredBytes(_)
StoredBytes(us) ==
    IF us = {} THEN 0
    ELSE LET u == CHOOSE x \in us : TRUE
         IN  Len(content[u]) + StoredBytes(us \ {u})

RECURSIVE PendingBytes(_)
PendingBytes(ts) ==
    IF ts = {} THEN 0
    ELSE LET t == CHOOSE x \in ts : TRUE
         IN  Len(task[t].body) + PendingBytes(ts \ {t})

\* The history of an upload whose requests overlapped or failed is dropped.
NotSequential(u) ==
    /\ sequential' = [sequential EXCEPT ![u] = FALSE]
    /\ sent' = [sent EXCEPT ![u] = <<>>]

\* upload_add_chunk up to the end of get_upload_writer: the existence check,
\* OpenOptions::new().append(true).open(location), seek(Start(start_at)).
upload_add_chunk_begin(t, u, hasRange) ==
    /\ UNCHANGED <<manifestVars, platformVars>>
    /\ Free(t)
    /\ req' = [NoReq EXCEPT !.kind = "upload_add_chunk", !.hasRange = hasRange]
    /\ IF RangeRejected(hasRange)
       THEN /\ Respond(t, ErrResp("upload_add_chunk", 0, "Unsupported"))
            /\ UNCHANGED <<fsVars, sent, sequential>>
       ELSE IF ~UploadExists(u)
       THEN /\ Respond(t, ErrResp("upload_add_chunk", u, "UploadDoesNotExit"))
            /\ UNCHANGED <<fsVars, sent, sequential>>
       ELSE \E body \in Contents :
            /\ StoredBytes(UploadIds) + PendingBytes(Tasks) + Len(body) <= MaxLen
            /\ task' = [task EXCEPT ![t] =
                    [IdleTask EXCEPT !.kind = "patch", !.pc = "write",
                                     !.upload = u, !.body = body]]
            /\ resp' = NoResp
            /\ IF InFlight(u) \/ ~sequential[u]
               THEN NotSequential(u)
               ELSE /\ sent' = [sent EXCEPT
                          ![u] = IF body = <<>> THEN @ ELSE Append(@, body)]
                    /\ UNCHANGED sequential
            /\ UNCHANGED fsVars

\* A write through a handle opened with append(true): the kernel puts the
\* bytes at the end of the file, whatever the handle's position `pos` is.
\* FileWriteAtPos is the same write through a handle without O_APPEND.
FileWriteAtPos(old, pos, chunk) ==
    LET end == pos + Len(chunk)
    IN  SubSeq(old, 1, pos) \o chunk \o SubSeq(old, end + 1, Len(old))

FileWrite(old, pos, chunk) == old \o chunk

\* One iteration of `while let Some(result) = body.next().await`: the next
\* frame of the body, of any size, is written with write_all.
upload_add_chunk_write(t) ==
    /\ UNCHANGED <<manifestVars, platformVars>>
    /\ task[t].kind = "patch" /\ task[t].pc = "write"
    /\ \E k \in 1..Len(task[t].body) :
         LET u == upload_path(task[t].upload)
             chunk == SubSeq(task[t].body, 1, k)
         IN  /\ content' = [content EXCEPT
                    ![u] = FileWrite(@, task[t].completed, chunk)]
             /\ Continue(t, [task[t] EXCEPT
                    !.body = SubSeq(@, k + 1, Len(@)),
                    !.completed = @ + k])
    /\ UNCHANGED <<nextUpload, uploads, blobs, sent, sequential>>

\* `let chunk = result?`: the body stream fails (the client went away).
upload_add_chunk_body_error(t) ==
    /\ UNCHANGED <<manifestVars, platformVars>>
    /\ task[t].kind = "patch" /\ task[t].pc = "write"
    /\ Finish(t, ErrResp("upload_add_chunk", task[t].upload, "Body"))
    /\ NotSequential(task[t].upload)
    /\ UNCHANGED fsVars

\* End of the body: writer.flush(), then Ok(UploadState { completed }).
upload_add_chunk_finish(t) ==
    /\ UNCHANGED <<manifestVars, platformVars>>
    /\ task[t].kind = "patch" /\ task[t].pc = "write"
    /\ task[t].body = <<>>
    /\ Finish(t, UploadStateIntoResponse("upload_add_chunk", task[t].upload,
                                         task[t].completed))
    /\ UNCHANGED <<fsVars, sent, sequential>>

\* --------------------------------------- PUT .../uploads/<id>?digest=<d>
\* The Content-Length header of the finalize PUT: -1 when it is absent.
ContentLengths == {-1, 0, 1}

\* upload_finalize: `if num_bytes != 0 { return Err(..) }`
ContentLengthRejected(contentLength) ==
    contentLength # -1 /\ contentLength # 0

\* impl Display for ImageDigest: "sha256:" followed by the digest.
ImageDigestDisplay(digest) == <<"sha256:", DigestDisplay(digest)>>

\* FilesystemStorage::blob_path, relative to blobs/
blob_path(digest) == DigestDisplay(digest)

\* upload_finalize up to the existence check of finalize_upload.
upload_finalize_begin(t, u, contentLength) ==
    /\ UNCHANGED <<manifestVars, platformVars>>
    /\ Free(t)
    /\ req' = [NoReq EXCEPT !.kind = "upload_finalize",
                            !.contentLength = contentLength]
    /\ IF ContentLengthRejected(contentLength)
       THEN /\ Respond(t, ErrResp("upload_finalize", 0, "Unsupported"))
            /\ UNCHANGED <<fsVars, sent, sequential>>
       ELSE IF ~UploadExists(u)
       THEN /\ Respond(t, ErrResp("upload_finalize", u, "UploadDoesNotExit"))
            /\ UNCHANGED <<fsVars, sent, sequential>>
       ELSE \E digest \in DigestInputs :
            /\ task' = [task EXCEPT ![t] =
                    [IdleTask EXCEPT !.kind = "finalize", !.pc = "hash",
                                     !.upload = u, !.digest = digest]]
            /\ resp' = NoResp
            /\ IF InFlight(u) THEN NotSequential(u)
                              ELSE UNCHANGED <<sent, sequential>>
            /\ UNCHANGED fsVars

DigestMismatchNever(actual, digest) == FALSE

\* finalize_upload: `if actual != digest { return Err(Error::DigestMismatch) }`
DigestMismatch(actual, digest) == actual # digest

\* finalize_upload: the spawn_blocking closure opens the partial and hashes
\* it; when it has returned, the digests are compared.
finalize_upload_hash(t) ==
    /\ UNCHANGED <<manifestVars, platformVars>>
    /\ task[t].kind = "finalize" /\ task[t].pc = "hash"
    /\ LET u == task[t].upload
       IN  IF ~UploadExists(u)
           THEN Finish(t, ErrResp("upload_finalize", task[t].upload, "Io"))
           ELSE IF DigestMismatch(SHA256(content[upload_path(u)]), task[t].digest)
           THEN Finish(t, ErrResp("upload_finalize", task[t].upload, "DigestMismatch"))
           ELSE Continue(t, [task[t] EXCEPT !.pc = "rename",
                                            !.actual = SHA256(content[upload_path(u)])])
    /\ UNCHANGED <<fsVars, sent, sequential>>

\* finalize_upload: tokio::fs::rename(upload_path, dest);
\* upload_finalize: the 201 response.
finalize_upload_rename(t) ==
    /\ UNCHANGED <<manifestVars, platformVars>>
    /\ task[t].kind = "finalize" /\ task[t].pc = "rename"
    /\ LET u == task[t].upload
           digest == task[t].digest
       IN  IF ~UploadExists(u)
           THEN /\ Finish(t, ErrResp("upload_finalize", task[t].upload, "Io"))
                /\ UNCHANGED fsVars
           ELSE /\ uploads' = uploads \ {upload_path(u)}
                /\ blobs' = (blob_path(digest) :> upload_path(u)) @@ blobs
                /\ Finish(t, [kind |-> "upload_finalize", status |-> 201,
                              err |-> "-", upload |-> u, range |-> -1,
                              digest |-> ImageDigestDisplay(digest)])
                /\ UNCHANGED <<nextUpload, content>>
    /\ UNCHANGED <<sent, sequential>>

\* ------------------------------------------------------------ blob reads
\* FilesystemStorage::get_blob_reader
get_blob_reader(digest) ==
    IF blob_path(digest) \notin DOMAIN blobs THEN NotFound
    ELSE [found |-> TRUE, bytes |-> content[blobs[blob_path(digest)]]]

\* FilesystemStorage::get_blob_metadata
get_blob_metadata(digest) ==
    IF blob_path(digest) \notin DOMAIN blobs THEN [found |-> FALSE, size |-> 0]
    ELSE [found |-> TRUE, size |-> Len(content[blobs[blob_path(digest)]])]

\* blob_get: the status and the body of GET /v2/<repo>/<image>/blobs/<digest>
blob_get(digest) ==
    LET reader == get_blob_reader(digest)
    IN  IF reader.found THEN [status |-> 200, body |-> reader.bytes]
        ELSE [status |-> 404, body |-> <<>>]

\* ----------------------------------------------------------------- next
UploadNext ==
    \E t \in Tasks :
        \/ upload_new(t)
        \/ \E u \in UploadIds, hasRange \in BOOLEAN :
               upload_add_chunk_begin(t, u, hasRange)
        \/ upload_add_chunk_write(t)
        \/ upload_add_chunk_body_error(t)
        \/ upload_add_chunk_finish(t)
        \/ \E u \in UploadIds, cl \in ContentLengths :
               upload_finalize_begin(t, u, cl)
        \/ finalize_upload_hash(t)
        \/ finalize_upload_rename(t)

\* Blob uploads: POST, PATCH and finalize PUT requests, interleaved.
UploadSpec == Init /\ [][UploadNext]_vars

\* ============================================================ manifests
\* The image locations and the tags that clients push to.
Locations == {[repository |-> "tests", image |-> "sample"]}
Tags == {"latest", "prod"}

\* Reference::Tag and Reference::Digest
ReferenceTag(tag) == [kind |-> "tag", tag |-> tag, digest |-> 0]
ReferenceDigest(digest) == [kind |-> "digest", tag |-> "", digest |-> digest]

\* Reference::as_tag
as_tag(reference) ==
    IF reference.kind = "tag" THEN [some |-> TRUE, tag |-> reference.tag]
    ELSE [some |-> FALSE, tag |-> ""]

\* struct ImageManifest: the fields that deserializing requires.
RequiredFields == <<"schemaVersion", "mediaType", "config", "layers">>

\* A request body is a byte string.  The JSON documents among the bodies are
\* written with one byte per required field, 2 for a field that is present
\* and 1 for one that is missing, and a last byte that tells documents with
\* the same fields apart.  Clients send the complete documents and one that
\* lacks its last required field.
ManifestBodies ==
    {body \in [1..(Len(RequiredFields) + 1) -> Bytes] :
        LET missing == {i \in 1..Len(RequiredFields) : body[i] = 1}
        IN  \/ missing = {}
            \/ missing = {Len(RequiredFields)} /\ body[Len(body)] = 1}

\* serde_json::from_slice::<ImageManifest>(manifest).is_ok()
from_slice_ok(manifest) ==
    /\ Len(manifest) = Len(RequiredFields) + 1
    /\ \A i \in 1..Len(RequiredFields) : manifest[i] = 2

ManifestReferences ==
    {[location |-> l, reference |-> r] :
        l \in Locations,
        r \in {ReferenceTag(tag) : tag \in Tags}
              \cup {ReferenceDigest(SHA256(body)) :
                       body \in {b \in ManifestBodies : from_slice_ok(b) /\ b[Len(b)] = 1}}}

\* ---------------------------------------------------------------- paths
\* Paths are relative to the canonicalized root of the store.
manifest_path(digest) == <<"manifests", DigestDisplay(digest)>>

blob_rel_path_shallow(digest) == <<"..", "..", "manifests", DigestDisplay(digest)>>

\* FilesystemStorage::blob_rel_path, with rel_manifest_to_blobs of ::new
blob_rel_path(digest) == <<"..", "..", "..", "manifests", DigestDisplay(digest)>>

tag_path(location, tag) == <<"tags", location.repository, location.image, tag>>

\* FilesystemStorage::temp_tag_path: the Uuid is the one of the task that
\* draws it, no two temporary links in existence share it.
temp_tag_path(t) == <<"tags", ToString(t)>>

Parent(path) == SubSeq(path, 1, Len(path) - 1)

\* The path that a relative symlink target names, seen from directory dir.
\* Above the root of the store there is nothing the model knows of.
RECURSIVE Walk(_, _)
Walk(dir, target) ==
    IF target = <<>> THEN dir
    ELSE IF Head(target) # ".." THEN Walk(Append(dir, Head(target)), Tail(target))
    ELSE IF dir = <<>> \/ dir[Len(dir)] = ".." THEN Walk(Append(dir, ".."), Tail(target))
    ELSE Walk(Parent(dir), Tail(target))

\* tokio::fs::read of a path, following a symlink, in a filesystem that
\* holds the files fs and the symlinks ls.
Read(fs, ls, path) ==
    LET file == IF path \in DOMAIN ls THEN Walk(Parent(path), ls[path])
                ELSE path
    IN  IF file \in DOMAIN fs
        THEN [found |-> TRUE, bytes |-> fs[file]]
        ELSE NotFound

\* FilesystemStorage::get_manifest, in such a filesystem
get_manifest_in(fs, ls, manifest_reference) ==
    IF manifest_reference.reference.kind = "tag"
    THEN Read(fs, ls, tag_path(manifest_reference.location,
                               manifest_reference.reference.tag))
    ELSE Read(fs, ls, manifest_path(manifest_reference.reference.digest))

\* FilesystemStorage::get_manifest, in the current state
get_manifest(manifest_reference) ==
    get_manifest_in(manifests, links, manifest_reference)

\* -------------------------------------------- PUT .../manifests/<reference>
\* A step of a put_manifest that does not end it.
PutContinue(t, next) ==
    /\ Continue(t, next)
    /\ put' = NoPut
    /\ hookFutures' = <<>>

\* put_manifest returns Err(err); manifest_put returns it with `?`, ahead of
\* the hook call.
PutErr(t, err) ==
    /\ put' = [manifest_reference |-> task[t].manifest_reference,
               manifest |-> task[t].body, result |-> err, digest |-> 0,
               overtook |-> overtaken[t]]
    /\ hookFutures' = <<>>
    /\ Finish(t, ErrResp("manifest_put", 0, err))

\* No other put_manifest is in flight.
Alone(t) == \A other \in Tasks \ {t} : task[other].kind # "manifest_put"

\* std::fs::File::create: the file is created, or truncated if it exists.
FileCreate(fs, path) == (path :> <<>>) @@ fs

\* write_all on a handle that was opened without O_APPEND and never moved.
FileWriteFromStart(old, bytes) ==
    bytes \o SubSeq(old, Len(bytes) + 1, Len(old))

\* manifest_put receives the request; put_manifest up to the first half of
\* tokio::fs::write(dest, &manifest), which opens dest with File::create.
manifest_put_begin(t, manifest_reference) ==
    /\ Free(t)
    /\ req' = [NoReq EXCEPT !.kind = "manifest_put"]
    /\ \E manifest \in ManifestBodies :
         IF ~from_slice_ok(manifest)
         THEN /\ Respond(t, ErrResp("manifest_put", 0, "InvalidManifest"))
              /\ put' = [manifest_reference |-> manifest_reference,
                         manifest |-> manifest, result |-> "InvalidManifest",
                         digest |-> 0, overtook |-> {}]
              /\ UNCHANGED <<manifests, overtaken>>
         ELSE LET digest == SHA256(manifest)
              IN  /\ manifests' = FileCreate(manifests, manifest_path(digest))
                  /\ task' = [task EXCEPT ![t] =
                                [IdleTask EXCEPT !.kind = "manifest_put",
                                                 !.pc = "write",
                                                 !.manifest_reference = manifest_reference,
                                                 !.body = manifest,
                                                 !.digest = digest]]
                  /\ overtaken' = [overtaken EXCEPT ![t] = {}]
                  /\ resp' = NoResp
                  /\ put' = NoPut
    /\ hookFutures' = <<>>
    /\ UNCHANGED <<platformVars, uploadVars, tagDirs, links, tagged, returned, last>>

\* put_manifest: the second half of tokio::fs::write, then
\* `.as_tag().ok_or(Error::NotATag)?` and `tag_parent.exists()`.
put_manifest_write(t) ==
    /\ task[t].kind = "manifest_put" /\ task[t].pc = "write"
    /\ LET dest == manifest_path(task[t].digest)
           location == task[t].manifest_reference.location
       IN  /\ manifests' = [manifests EXCEPT
                              ![dest] = FileWriteFromStart(@, task[t].body)]
           /\ IF ~as_tag(task[t].manifest_reference.reference).some
              THEN PutErr(t, "NotATag")
              ELSE PutContinue(t, [task[t] EXCEPT
                     !.pc = IF location \in tagDirs THEN "symlink" ELSE "mkdir"])
    /\ UNCHANGED <<platformVars, uploadVars, tagDirs, links, tagged, returned,
                   overtaken, last>>

\* put_manifest: tokio::fs::create_dir_all(tag_parent)
put_manifest_mkdir(t) ==
    /\ task[t].kind = "manifest_put" /\ task[t].pc = "mkdir"
    /\ tagDirs' = tagDirs \cup {task[t].manifest_reference.location}
    /\ PutContinue(t, [task[t] EXCEPT !.pc = "symlink"])
    /\ UNCHANGED <<platformVars, uploadVars, manifests, links, tagged, returned,
                   overtaken, last>>

\* The tag is unlinked before the new link is drawn up.
put_manifest_symlink_unlinking(t) ==
    /\ task[t].kind = "manifest_put" /\ task[t].pc = "symlink"
    /\ LET location == task[t].manifest_reference.location
           tag == tag_path(location, task[t].manifest_reference.reference.tag)
       IN  links' = (temp_tag_path(t) :> blob_rel_path(task[t].digest))
                    @@ [path \in DOMAIN links \ {tag} |-> links[path]]
    /\ PutContinue(t, [task[t] EXCEPT !.pc = "rename"])
    /\ UNCHANGED <<platformVars, uploadVars, manifests, tagDirs, tagged, returned,
                   overtaken, last>>

\* put_manifest: tokio::fs::symlink(self.blob_rel_path(digest), &tmp_tag)
put_manifest_symlink(t) ==
    /\ task[t].kind = "manifest_put" /\ task[t].pc = "symlink"
    /\ links' = (temp_tag_path(t) :> blob_rel_path(task[t].digest)) @@ links
    /\ PutContinue(t, [task[t] EXCEPT !.pc = "rename"])
    /\ UNCHANGED <<platformVars, uploadVars, manifests, tagDirs, tagged, returned,
                   overtaken, last>>

\* A rename that leaves a name that exists as it is.
RenameKeeping(ls, from, to) ==
    IF from \notin DOMAIN ls
    THEN [ok |-> FALSE, links |-> ls]
    ELSE [ok |-> TRUE,
          links |-> [path \in DOMAIN ls \ {from} |-> ls[path]]
                    @@ (to :> ls[from])]

\* A rename that refuses to replace a name that exists.
RenameNoReplace(ls, from, to) ==
    IF from \notin DOMAIN ls \/ to \in DOMAIN ls
    THEN [ok |-> FALSE, links |-> ls]
    ELSE [ok |-> TRUE,
          links |-> (to :> ls[from]) @@ [path \in DOMAIN ls \ {from} |-> ls[path]]]

\* tokio::fs::rename of a symlink: the name `to` is replaced in one step.
Rename(ls, from, to) ==
    IF from \notin DOMAIN ls
    THEN [ok |-> FALSE, links |-> ls]
    ELSE [ok |-> TRUE,
          links |-> (to :> ls[from]) @@ [path \in DOMAIN ls \ {from} |-> ls[path]]]

\* #[async_trait] async fn on_manifest_uploaded: the call builds the boxed
\* future of the hook's body; the body runs when the future is polled.
on_manifest_uploaded(manifest_reference) ==
    [manifest_reference |-> manifest_reference, polled |-> FALSE]

\* `registry.hooks.on_manifest_uploaded(&manifest_reference).await;`: the
\* body of the hook has run to its end before the handler goes on.
HookAwaited(future) == [future EXCEPT !.polled = TRUE]

\* manifest_put: `registry.hooks.on_manifest_uploaded(&manifest_reference);`
\* is a statement: the future it evaluates to is dropped as it is.
HookStatement(future) == future

\* The hook events that the latest step delivered.
Delivered == SelectSeq(hookFutures, LAMBDA future : future.polled)

\* The outcome of the latest put that succeeded with no other put in
\* flight, and whether the one before it had the same reference and bytes.
Record(t, key, digest, resolved) ==
    IF ~Alone(t) THEN last
    ELSE [key |-> key, digest |-> digest, resolved |-> resolved,
          again |-> (last.key = key)]

\* The puts in flight to the tag that the put of task t has just linked
\* have been overtaken by it; its own put is over.
Overtaking(t, manifest_reference, digest) ==
    [other \in Tasks |->
        IF other = t THEN {}
        ELSE IF /\ task[other].kind = "manifest_put"
                /\ task[other].manifest_reference = manifest_reference
        THEN overtaken[other] \cup {digest}
        ELSE overtaken[other]]

\* put_manifest: tokio::fs::rename(tmp_tag, tag) and Ok(digest);
\* manifest_put: the hook call and the 201 response.
put_manifest_rename(t) ==
    /\ task[t].kind = "manifest_put" /\ task[t].pc = "rename"
    /\ LET manifest_reference == task[t].manifest_reference
           digest == task[t].digest
           tag == tag_path(manifest_reference.location, manifest_reference.reference.tag)
           renamed == Rename(links, temp_tag_path(t), tag)
       IN  IF ~renamed.ok
           THEN /\ PutErr(t, "Io")
                /\ UNCHANGED <<links, tagged, returned,
                   overtaken, last>>
           ELSE /\ links' = renamed.links
                /\ tagged' = tagged \cup {tag}
                /\ returned' = returned \cup {digest}
                /\ last' = Record(t, <<manifest_reference, task[t].body>>,
                                   ImageDigestDisplay(digest),
                                   get_manifest_in(manifests, renamed.links, manifest_reference))
                /\ put' = [manifest_reference |-> manifest_reference,
                           manifest |-> task[t].body, result |-> "Ok",
                           digest |-> digest, overtook |-> overtaken[t]]
                /\ overtaken' = Overtaking(t, manifest_reference, digest)
                /\ hookFutures' = <<HookStatement(on_manifest_uploaded(manifest_reference))>>
                /\ Finish(t, [kind |-> "manifest_put", status |-> 201,
                              err |-> "-", upload |-> 0, range |-> -1,
                              digest |-> ImageDigestDisplay(digest)])
    /\ UNCHANGED <<platformVars, uploadVars, manifests, tagDirs>>

\* ------------------------------------------------------------ reads
\* A request that is answered in the step that receives it.
ReadReq(kind, manifest_reference, digest) ==
    [kind |-> kind, hasRange |-> FALSE, contentLength |-> -1,
     manifest_reference |-> manifest_reference, digest |-> digest]

ReadResp(kind, status, err, body) ==
    [kind |-> kind, status |-> status, err |-> err, upload |-> 0, range |-> -1,
     digest |-> "-", body |-> body]

Answer(t, request, response) ==
    /\ Free(t)
    /\ req' = request
    /\ Respond(t, response)
    /\ put' = NoPut
    /\ hookFutures' = <<>>
    /\ UNCHANGED <<platformVars, uploadVars, manifests, tagDirs, links, tagged,
                   returned, overtaken, last>>

\* manifest_get: GET /v2/<repo>/<image>/manifests/<reference>
manifest_get(t, manifest_reference) ==
    LET manifest_json == get_manifest(manifest_reference)
    IN  Answer(t, ReadReq("manifest_get", manifest_reference, 0),
               IF ~manifest_json.found
               THEN ReadResp("manifest_get",
                             AppErrorIntoResponse([variant |-> "NotFound"]),
                             "NotFound", <<>>)
               ELSE IF ~from_slice_ok(manifest_json.bytes)
               THEN ReadResp("manifest_get",
                             AppErrorIntoResponse(AppErrorFrom("Json")), "Json", <<>>)
               ELSE ReadResp("manifest_get", 200, "-", manifest_json.bytes))

\* blob_check: HEAD /v2/<repo>/<image>/blobs/<digest>
blob_check(t, digest) ==
    Answer(t, ReadReq("blob_check", NoManifestReference, digest),
           IF get_blob_metadata(digest).found
           THEN ReadResp("blob_check", 200, "-", <<>>)
           ELSE ReadResp("blob_check", 404, "-", <<>>))

\* blob_get: GET /v2/<repo>/<image>/blobs/<digest>
blob_get_answer(t, digest) ==
    Answer(t, ReadReq("blob_get", NoManifestReference, digest),
           ReadResp("blob_get", blob_get(digest).status,
                    IF blob_get(digest).status = 404 THEN "NotFound" ELSE "-",
                    blob_get(digest).body))

\* The references and the digests that clients ask for.
GetReferences ==
    ManifestReferences
    \cup {[location |-> l, reference |-> ReferenceDigest(SHA256(body))] :
            l \in Locations, body \in {b \in ManifestBodies : from_slice_ok(b)}}

GetDigests == {SHA256(<<1>>), SHA256(<<2>>)}

ManifestNext ==
    \E t \in Tasks :
        \/ \E manifest_reference \in ManifestReferences :
               manifest_put_begin(t, manifest_reference)
        \/ put_manifest_write(t)
        \/ put_manifest_mkdir(t)
        \/ put_manifest_symlink(t)
        \/ put_manifest_rename(t)

\* Manifest pushes: PUT requests for tags and digests, interleaved.
ManifestSpec == Init /\ [][ManifestNext]_vars

\* The registry over a store that holds the blob of an upload that was
\* finalized, with pushes and reads of manifests and reads of blobs.
ReadInit ==
    /\ PlatformInit
    /\ nextUpload = 1
    /\ uploads = {}
    /\ content = [u \in UploadIds |-> IF u = 1 THEN <<1>> ELSE <<>>]
    /\ blobs = (blob_path(SHA256(<<1>>)) :> 1)
    /\ task = [t \in Tasks |-> IdleTask]
    /\ req = NoReq
    /\ resp = NoResp
    /\ sent = [u \in UploadIds |-> IF u = 1 THEN <<<<1>>>> ELSE <<>>]
    /\ sequential = [u \in UploadIds |-> TRUE]
    /\ manifests = <<>>
    /\ tagDirs = {}
    /\ links = <<>>
    /\ hookFutures = <<>>
    /\ put = NoPut
    /\ tagged = {}
    /\ returned = {}
    /\ overtaken = [t \in Tasks |-> {}]
    /\ last = NoLast

ReadNext ==
    \E t \in Tasks :
        \/ \E manifest_reference \in ManifestReferences :
               manifest_put_begin(t, manifest_reference)
        \/ put_manifest_write(t)
        \/ put_manifest_mkdir(t)
        \/ put_manifest_symlink(t)
        \/ put_manifest_rename(t)
        \/ \E manifest_reference \in GetReferences : manifest_get(t, manifest_reference)
        \/ \E digest \in GetDigests : blob_check(t, digest)
        \/ \E digest \in GetDigests : blob_get_answer(t, digest)

ReadSpec == ReadInit /\ [][ReadNext]_vars

\* ============================================================= platform
\* ---------------------------------------------------------------- strings
\* Beyond the registry a string is the sequence of its symbols.  A symbol is
\* a run of characters; every literal that the code searches for or compares
\* with ("/", ":", ".", "-", "?", "prod", "rockslide-", "_rockslide", ...)
\* is a symbol of its own, so that searching a string for the literal is
\* searching the sequence for the symbol.
None == [some |-> FALSE, value |-> <<>>]
Some(value) == [some |-> TRUE, value |-> value]

\* char::to_lowercase, symbol by symbol
LowerSymbol(symbol) ==
    CASE symbol = "Example" -> "example"
      [] symbol = "COM" -> "com"
      [] symbol = "FOO" -> "foo"
      [] symbol = "X-Script-Name" -> "x-script-name"
      [] symbol = "X-SCRIPT-NAME" -> "x-script-name"
      [] symbol = "Connection" -> "connection"
      [] symbol = "X-Other" -> "x-other"
      [] OTHER -> symbol

\* str::to_lowercase
to_lowercase(str) == [i \in 1..Len(str) |-> LowerSymbol(str[i])]

\* str::contains, for a pattern of one symbol
contains(str, symbol) == \E i \in 1..Len(str) : str[i] = symbol

\* str::find and str::rfind, for a pattern of one symbol; 0 is None
find(str, symbol) ==
    IF contains(str, symbol)
    THEN CHOOSE i \in 1..Len(str) :
           str[i] = symbol /\ \A j \in 1..(i - 1) : str[j] # symbol
    ELSE 0

rfind(str, symbol) ==
    IF contains(str, symbol)
    THEN CHOOSE i \in 1..Len(str) :
           str[i] = symbol /\ \A j \in (i + 1)..Len(str) : str[j] # symbol
    ELSE 0

\* str::starts_with and str::ends_with
starts_with(str, prefix) ==
    Len(str) >= Len(prefix) /\ SubSeq(str, 1, Len(prefix)) = prefix

ends_with(str, suffix) ==
    Len(str) >= Len(suffix)
    /\ SubSeq(str, Len(str) - Len(suffix) + 1, Len(str)) = suffix

\* str::strip_prefix
strip_prefix(str, prefix) ==
    IF starts_with(str, prefix)
    THEN Some(SubSeq(str, Len(prefix) + 1, Len(str)))
    ELSE None

\* str::split(symbol).collect(): the pieces between the occurrences
RECURSIVE split(_, _)
split(str, symbol) ==
    LET at == find(str, symbol)
    IN  IF at = 0 THEN <<str>>
        ELSE <<SubSeq(str, 1, at - 1)>>
             \o split(SubSeq(str, at + 1, Len(str)), symbol)

\* [String]::concat
RECURSIVE concat(_)
concat(strs) ==
    IF strs = <<>> THEN <<>> ELSE Head(strs) \o concat(Tail(strs))

\* ------------------------------------------------------------ containers
\* struct ImageLocation, and its Display "<repository>/<image>"
ImageLocation(repository, image) == [repository |-> repository, image |-> image]

ImageLocationDisplay(location) == location.repository \o <<"/">> \o location.image

\* struct ManifestReference (ManifestReference::new)
ManifestReferenceNew(location, reference) ==
    [location |-> location, reference |-> reference]

\* impl Display for Reference
ReferenceDisplay(reference) ==
    IF reference.kind = "tag" THEN reference.tag
    ELSE <<DigestDisplay(reference.digest)>>

\* impl Display for ManifestReference: "<location>:<reference>"
ManifestReferenceDisplay(manifest_reference) ==
    ImageLocationDisplay(manifest_reference.location) \o <<":">>
    \o ReferenceDisplay(manifest_reference.reference)

\* struct RuntimeConfig: http.access is None or a map of user name -> password
RuntimeConfig(access) == [http |-> [access |-> access]]

\* impl Default for RuntimeConfig
RuntimeConfigDefault == RuntimeConfig(None)

\* The text of a TOML document for a RuntimeConfig: whether it has an
\* `[http]` table, and if that has the key `access`, its entries in the
\* order they are written. Other text, and a body that cannot be read as a
\* string, are of other kinds.
Toml(http, access) == [kind |-> "toml", http |-> http, access |-> access]

Entry(user, password) == [user |-> user, password |-> password]

\* The orders in which a HashMap may give its keys
Orders(keys) ==
    {order \in [1..Cardinality(keys) -> keys] :
        \A i, j \in 1..Cardinality(keys) : order[i] = order[j] => i = j}

\* toml::to_string_pretty of a RuntimeConfig, as the set of texts it may
\* give: `[http]`, and the users of the access map with their passwords
to_string_pretty(config) ==
    IF config.http.access.some
    THEN {Toml(TRUE, Some([i \in 1..Len(order) |->
                             Entry(order[i], config.http.access.value[order[i]])])) :
            order \in Orders(DOMAIN config.http.access.value)}
    ELSE {Toml(TRUE, None)}

\* toml::from_str::<RuntimeConfig>: a key that is written twice is an error
toml_from_str(raw) ==
    IF raw.kind # "toml" THEN None
    ELSE IF ~raw.access.some THEN Some(RuntimeConfigDefault)
    ELSE LET entries == raw.access.value
         IN  IF \E i, j \in 1..Len(entries) : i # j /\ entries[i].user = entries[j].user
             THEN None
             ELSE Some(RuntimeConfig(Some(
                    [user \in {entries[i].user : i \in 1..Len(entries)} |->
                        (CHOOSE entry \in {entries[i] : i \in 1..Len(entries)} :
                            entry.user = user).password])))

\* A request body: a TOML document of a RuntimeConfig, text that is not
\* one, or more bytes than route_request reads.
TomlBody(config) ==
    IF config.http.access.some
    THEN LET map == config.http.access.value
             order == CHOOSE order \in Orders(DOMAIN map) : TRUE
         IN  Toml(TRUE, Some([i \in 1..Len(order) |-> Entry(order[i], map[order[i]])]))
    ELSE Toml(TRUE, None)
TextBody == [kind |-> "text", http |-> FALSE, access |-> None]
LargeBody == [kind |-> "large", http |-> FALSE, access |-> None]

\* struct PublishedContainer
PublishedContainer(host_addr, manifest_reference, config) ==
    [host_addr |-> host_addr, manifest_reference |-> manifest_reference,
     config |-> config]

\* --------------------------------------------------------- routing table
\* A Domain that keeps the name as it is written.
DomainNewAsWritten(raw) ==
    IF ~contains(raw, ".") THEN None ELSE Some(raw)

\* Domain::new
DomainNew(raw) ==
    LET domain_name == to_lowercase(raw)
    IN  IF ~contains(domain_name, ".") THEN None ELSE Some(domain_name)

\* impl Default for RoutingTable
RoutingTableDefault == [path_maps |-> <<>>, domain_maps |-> <<>>]

\* RoutingTable::from_containers: HashMap::insert replaces an entry that a
\* container earlier in the list has made.
RECURSIVE from_containers(_)
from_containers(containers) ==
    IF containers = <<>> THEN RoutingTableDefault
    ELSE LET before == from_containers(SubSeq(containers, 1, Len(containers) - 1))
             container == containers[Len(containers)]
             location == container.manifest_reference.location
             domain == DomainNew(location.repository)
         IN  [path_maps |-> (location :> container) @@ before.path_maps,
              domain_maps |-> IF domain.some
                              THEN (domain.value :> container) @@ before.domain_maps
                              ELSE before.domain_maps]

\* RoutingTable::get_path_route and ::get_domain_route
get_path_route(table, image_location) ==
    IF image_location \in DOMAIN table.path_maps
    THEN Some(table.path_maps[image_location]) ELSE None

get_domain_route(table, domain) ==
    IF domain \in DOMAIN table.domain_maps
    THEN Some(table.domain_maps[domain]) ELSE None

\* ----------------------------------------------------------- the RwLock
\* tokio::sync::RwLock::read and ::write return when the lock admits it.
CanReadAlways == TRUE

CanRead == lock.writer = {}

CanWrite == lock.writer = {} /\ lock.readers = {}

\* ------------------------------------------------------------ platform tasks
\* A step of a task beyond the registry: it runs the podman commands
\* `commands`, receives no request and sends no response.
Work(t, next, commands) ==
    /\ task' = [task EXCEPT ![t] = next]
    /\ podman' = commands
    /\ req' = NoReq
    /\ resp' = NoResp
    /\ upstream' = <<>>

\* The order of the listings that tasks hold, without that of task t.
Without(order, t) == SelectSeq(order, LAMBDA other : other # t)

\* The tasks whose listing is older than the one that task t holds.
OlderThan(t) ==
    {listed.order[i] : i \in {i \in 1..Len(listed.order) :
                                \E j \in (i + 1)..Len(listed.order) : listed.order[j] = t}}

\* podman ps has answered task t.
ListedBy(t) ==
    [order |-> Append(Without(listed.order, t), t), outdated |-> listed.outdated \ {t}]

\* Task t gives up the listing it holds, if it holds one.
ListingDropped(t) ==
    [order |-> Without(listed.order, t), outdated |-> listed.outdated \ {t}]

\* The table of the listing that task t holds has been put in place.
ListingInstalled(t) ==
    [order |-> Without(listed.order, t),
     outdated |-> (listed.outdated \ {t}) \cup OlderThan(t)]

\* ReverseProxy::update_containers: `self.routing_table.write().await`
update_containers_lock(t) ==
    /\ task[t].pc = "update_lock"
    /\ CanWrite
    /\ lock' = [lock EXCEPT !.writer = {t}]
    /\ Work(t, [task[t] EXCEPT !.pc = "update_swap"], <<>>)
    /\ UNCHANGED <<storeVars, listed, installed, master_key, routing_table, configs, volume_dirs>>

\* update_containers: mem::swap(&mut *guard, &mut routing_table) moves the
\* table into place field by field; this is the first field.
update_containers_swap(t) ==
    /\ task[t].pc = "update_swap"
    /\ routing_table' = [routing_table EXCEPT !.path_maps = task[t].built.path_maps]
    /\ Work(t, [task[t] EXCEPT !.pc = "update_unlock"], <<>>)
    /\ UNCHANGED <<storeVars, listed, installed, master_key, lock, configs, volume_dirs>>

\* update_containers: the second field, and the guard is dropped.  The
\* caller sends the response it has ready, if it has a request to answer.
update_containers_unlock(t) ==
    /\ task[t].pc = "update_unlock"
    /\ routing_table' = [routing_table EXCEPT !.domain_maps = task[t].built.domain_maps]
    /\ lock' = [lock EXCEPT !.writer = {}]
    /\ task' = [task EXCEPT ![t] = IdleTask]
    /\ resp' = task[t].after
    /\ req' = task[t].request
    /\ podman' = <<>>
    /\ upstream' = <<>>
    /\ installed' = task[t].built
    /\ listed' = ListingInstalled(t)
    /\ UNCHANGED <<storeVars, master_key, configs, volume_dirs>>

\* ----------------------------------------------------------- orchestrator
\* synchronize_container_state: `let production_tag = "prod";`
production_tag == <<"prod">>

\* ContainerOrchestrator::local_addr, as SocketAddr::to_string gives it
local_addr == <<"127.0.0.1", ":", "3000">>

\* std::path::Path::components: the pieces between separators, with empty
\* pieces and "." dropped, behind RootDir for an absolute path and CurDir
\* for a relative path that starts with ".".
Component(piece) ==
    IF piece = <<"..">> THEN [kind |-> "ParentDir", name |-> piece]
    ELSE [kind |-> "Normal", name |-> piece]

RECURSIVE NamedComponents(_)
NamedComponents(pieces) ==
    IF pieces = <<>> THEN <<>>
    ELSE IF Head(pieces) \in {<<>>, <<".">>} THEN NamedComponents(Tail(pieces))
    ELSE <<Component(Head(pieces))>> \o NamedComponents(Tail(pieces))

components(path) ==
    LET pieces == split(path, "/")
    IN  (IF starts_with(path, <<"/">>) THEN <<[kind |-> "RootDir", name |-> <<>>]>>
         ELSE IF Head(pieces) = <<".">> THEN <<[kind |-> "CurDir", name |-> <<>>]>>
         ELSE <<>>)
        \o NamedComponents(pieces)

\* VolumeDesc::from_path: one leading "/" is stripped, then every component
\* has to be a normal one.
VolumeDescFromPathUnchecked(path) ==
    LET pieces == SelectSeq(split(path, "/"), LAMBDA piece : piece # <<>>)
    IN  Some(pieces)

VolumeDescFromPath(path) ==
    LET all == components(path)
        relative == IF all # <<>> /\ Head(all).kind = "RootDir" THEN Tail(all) ELSE all
    IN  IF \E i \in 1..Len(relative) : relative[i].kind # "Normal" THEN None
        ELSE Some([i \in 1..Len(relative) |-> relative[i].name])

\* ImageConfigJson::volume_iter: filter_map over the keys
RECURSIVE volume_iter(_)
volume_iter(keys) ==
    IF keys = <<>> THEN <<>>
    ELSE LET desc == VolumeDescFromPath(Head(keys))
         IN  (IF desc.some THEN <<desc.value>> ELSE <<>>) \o volume_iter(Tail(keys))

\* str::trim_start_matches(':')
RECURSIVE trim_start_matches(_, _)
trim_start_matches(str, symbol) ==
    IF str # <<>> /\ Head(str) = symbol THEN trim_start_matches(Tail(str), symbol)
    ELSE str

\* ManifestReference::namespaced_dir, as the components below `base`
namespaced_dir(manifest_reference) ==
    <<manifest_reference.location.repository,
      manifest_reference.location.image,
      trim_start_matches(ReferenceDisplay(manifest_reference.reference), ":")>>

\* ContainerOrchestrator::new: "volumes" below the canonicalized runtime
\* directory
volumes_dir == <<"/", "runtime", "/", "volumes">>

\* Path::join and PathBuf::push: an absolute path replaces the base, any
\* other is appended behind a separator
join(base, path) ==
    IF starts_with(path, <<"/">>) THEN path
    ELSE IF base = <<>> \/ ends_with(base, <<"/">>) THEN base \o path
    ELSE base \o <<"/">> \o path

\* A PathBuf that is built by pushing the parts one after the other
RECURSIVE PathBufOf(_, _)
PathBufOf(base, parts) ==
    IF parts = <<>> THEN base ELSE PathBufOf(join(base, Head(parts)), Tail(parts))

\* synchronize_container_state: `volume_base.join(&vol_desc)`, where
\* `volume_base` is namespaced_dir below volumes_dir
host_path(manifest_reference, vol_desc) ==
    join(PathBufOf(volumes_dir, namespaced_dir(manifest_reference)),
         PathBufOf(<<>>, vol_desc))

\* synchronize_container_state: `PathBuf::from("/")` with the volume pushed
container_path(vol_desc) == join(<<"/">>, PathBufOf(<<>>, vol_desc))

\* RunCommand::bind_volume: the mount `<host>:<container>` of `podman run -v`
bind_volume(host, container) == host \o <<":">> \o container

\* tokio::fs::create_dir_all: the directory and those above it
create_dir_all(dirs, path) ==
    dirs \cup {SubSeq(path, 1, n) : n \in 1..Len(path)}

\* The name that synchronize_container_state gives the container
ContainerName(location) ==
    <<"rockslide-">> \o location.repository \o <<"-">> \o location.image

\* and the `image_url` that it pulls and runs
ImageUrl(location) ==
    local_addr \o <<"/">> \o location.repository \o <<"/">> \o location.image
    \o <<":">> \o production_tag

\* `matches!(manifest_reference.reference(), Reference::Tag(tag) if tag == production_tag)`
IsProductionAlways(manifest_reference) == TRUE

IsProduction(manifest_reference) ==
    /\ manifest_reference.reference.kind = "tag"
    /\ manifest_reference.reference.tag = production_tag

\* str::split_once
split_once(str, symbol) ==
    LET at == find(str, symbol)
    IN  IF at = 0 THEN None
        ELSE Some(<<SubSeq(str, 1, at - 1), SubSeq(str, at + 1, Len(str))>>)

\* ContainerJson::image_location: the first name "rockslide-<left>-<right>"
RECURSIVE image_location(_)
image_location(names) ==
    IF names = <<>> THEN None
    ELSE LET subname == strip_prefix(Head(names), <<"rockslide-">>)
             pair == IF subname.some THEN split_once(subname.value, "-") ELSE None
         IN  IF pair.some
             THEN Some(ImageLocation(pair.value[1], pair.value[2]))
             ELSE image_location(Tail(names))

\* ContainerJson::image_tag: `self.image[idx..]` starts at the colon
image_tag(image) ==
    LET idx == rfind(image, ":")
    IN  IF idx = 0 THEN None
        ELSE Some(ReferenceTag(SubSeq(image, idx, Len(image))))

\* ContainerJson::manifest_reference
manifest_reference_of(container_json) ==
    LET location == image_location(container_json.names)
        reference == image_tag(container_json.image)
    IN  IF location.some /\ reference.some
        THEN Some(ManifestReferenceNew(location.value, reference.value))
        ELSE None

\* ContainerJson::active_published_port
active_published_port(container_json) ==
    IF container_json.ports = <<>> THEN None ELSE Some(container_json.ports[1])

\* PortMapping::get_host_listening_addr: Ipv4Addr::from_str has to accept
\* the host_ip
get_host_listening_addr(port_mapping) ==
    IF port_mapping.host_ip \in {"127.0.0.1", "0.0.0.0"}
    THEN Some(<<port_mapping.host_ip, ":", port_mapping.host_port>>)
    ELSE None

\* ContainerOrchestrator::load_config: the default when there is no file,
\* else what the file parses to (the files are those that save_config wrote)
load_config(stored, manifest_reference) ==
    IF namespaced_dir(manifest_reference) \in DOMAIN stored
    THEN toml_from_str(stored[namespaced_dir(manifest_reference)]).value
    ELSE RuntimeConfigDefault

\* load_config gives an error: the file is there and does not parse.
load_config_fails(stored, manifest_reference) ==
    /\ namespaced_dir(manifest_reference) \in DOMAIN stored
    /\ ~toml_from_str(stored[namespaced_dir(manifest_reference)]).some

\* What `podman ps` and `podman inspect` may answer.
ContainerJsons ==
    {[names |-> <<<<"rockslide-", "foo", "-", "bar">>>>,
      image |-> ImageUrl(ImageLocation(<<"foo">>, <<"bar">>)),
      ports |-> <<[host_ip |-> "127.0.0.1", host_port |-> "12345"]>>],
     [names |-> <<<<"rockslide-", "Example", ".", "com", "-", "app">>>>,
      image |-> ImageUrl(ImageLocation(<<"Example", ".", "com">>, <<"app">>)),
      ports |-> <<[host_ip |-> "0.0.0.0", host_port |-> "12346"]>>],
     [names |-> <<<<"postgres">>>>,
      image |-> <<"docker", ".", "io", "/", "postgres", ":", "16">>,
      ports |-> <<[host_ip |-> "127.0.0.1", host_port |-> "5432"]>>],
     [names |-> <<<<"rockslide-", "foo", "-", "bar">>>>,
      image |-> ImageUrl(ImageLocation(<<"foo">>, <<"bar">>)),
      ports |-> <<[host_ip |-> "", host_port |-> "12347"]>>]}

Listings ==
    {<<>>} \cup {<<one>> : one \in ContainerJsons}
    \cup {<<one, two>> : one \in ContainerJsons,
                         two \in {other \in ContainerJsons : other.ports[1].host_ip # ""}}

VolumeKeys ==
    {<<>>,
     <<<<"/", "data">>>>,
     <<<<"cache", "/", "tmp">>, <<"..", "/", "etc">>>>,
     <<<<"/">>>>,
     <<<<"/", "data", "/", ".", "/", "x">>, <<".", "/", "x">>>>,
     <<<<"/", "a", "/", "..", "/", "b">>, <<"/", "/", "etc">>>>}

\* The manifest references that the registry reports to the orchestrator.
HookReferences ==
    {ManifestReferenceNew(ImageLocation(<<"foo">>, <<"bar">>), reference) :
        reference \in {ReferenceTag(<<"prod">>), ReferenceTag(<<"latest">>),
                       ReferenceTag(<<":", "prod">>),
                       ReferenceDigest(SHA256(<<1>>))}}

HookTask(manifest_reference, pc) ==
    [kind |-> "hook", pc |-> pc, manifest_reference |-> manifest_reference,
     keys |-> <<>>, volumes |-> <<>>, index |-> 0, listing |-> <<>>, running |-> <<>>,
     built |-> RoutingTableDefault, after |-> NoResp, request |-> NoReq]

\* A try_quiet! that ends the handler of the event, not only the function.
try_quiet_ending(t, failed, next) ==
    IF failed THEN IdleTask ELSE next

\* A try_quiet! that logs the error and goes on.
try_quiet_logging(t, failed, next) == next

\* try_quiet!: the error is logged and synchronize_container_state returns;
\* on_manifest_uploaded goes on with updated_published_set.
try_quiet(t, failed, next) ==
    IF failed THEN [task[t] EXCEPT !.pc = "ps"] ELSE next

\* impl RegistryHooks for Arc<ContainerOrchestrator>: on_manifest_uploaded
\* enters synchronize_container_state, which tests the reference.
orchestrator_on_manifest_uploaded(t) ==
    /\ Free(t)
    /\ \E manifest_reference \in HookReferences :
         Work(t, HookTask(manifest_reference,
                          IF IsProduction(manifest_reference) THEN "inspect" ELSE "ps"),
              <<>>)
    /\ UNCHANGED <<storeVars, listed, installed, master_key, routing_table, lock, configs, volume_dirs>>

\* synchronize_container_state: podman inspect, and volume_iter of its answer
podman_inspect(t) ==
    /\ task[t].pc = "inspect"
    /\ \E failed \in BOOLEAN, keys \in VolumeKeys :
         /\ failed => keys = <<>>
         /\ Work(t, try_quiet(t, failed, [task[t] EXCEPT !.pc = "rm",
                                                        !.keys = keys,
                                                        !.volumes = volume_iter(keys)]),
                 <<[command |-> "inspect", failed |-> failed,
                    args |-> <<ManifestReferenceDisplay(task[t].manifest_reference)>>]>>)
    /\ UNCHANGED <<storeVars, listed, installed, master_key, routing_table, lock, configs, volume_dirs>>

\* synchronize_container_state: podman rm --force <name>
podman_rm(t) ==
    /\ task[t].pc = "rm"
    /\ \E failed \in BOOLEAN :
         Work(t, try_quiet(t, failed, [task[t] EXCEPT !.pc = "login"]),
              <<[command |-> "rm", failed |-> failed,
                 args |-> <<ContainerName(task[t].manifest_reference.location)>>]>>)
    /\ UNCHANGED <<storeVars, listed, installed, master_key, routing_table, lock, configs, volume_dirs>>

\* synchronize_container_state: podman login <local_addr>
podman_login(t) ==
    /\ task[t].pc = "login"
    /\ \E failed \in BOOLEAN :
         Work(t, try_quiet(t, failed, [task[t] EXCEPT !.pc = "pull"]),
              <<[command |-> "login", failed |-> failed, args |-> <<local_addr>>]>>)
    /\ UNCHANGED <<storeVars, listed, installed, master_key, routing_table, lock, configs, volume_dirs>>

\* synchronize_container_state: podman pull <image_url>
podman_pull(t) ==
    /\ task[t].pc = "pull"
    /\ \E failed \in BOOLEAN :
         Work(t, try_quiet(t, failed,
                           [task[t] EXCEPT !.pc = IF task[t].volumes = <<>> THEN "run"
                                                  ELSE "volumes",
                                           !.index = 1]),
              <<[command |-> "pull", failed |-> failed,
                 args |-> <<ImageUrl(task[t].manifest_reference.location)>>]>>)
    /\ UNCHANGED <<storeVars, listed, installed, master_key, routing_table, lock, configs, volume_dirs>>

\* synchronize_container_state: `for vol_desc in volumes`, one turn of it
prepare_volume(t) ==
    /\ task[t].pc = "volumes"
    /\ LET created == namespaced_dir(task[t].manifest_reference)
                      \o task[t].volumes[task[t].index]
           next == [task[t] EXCEPT !.pc = IF task[t].index = Len(task[t].volumes)
                                          THEN "run" ELSE "volumes",
                                   !.index = task[t].index + 1]
       IN  IF created \in volume_dirs
           THEN /\ Work(t, next, <<>>)
                /\ volume_dirs' = volume_dirs
           ELSE \E failed \in BOOLEAN :
                  /\ Work(t, try_quiet(t, failed, next), <<>>)
                  /\ volume_dirs' = IF failed THEN volume_dirs
                                    ELSE create_dir_all(volume_dirs, created)
    /\ UNCHANGED <<storeVars, listed, installed, master_key, routing_table, lock, configs>>

\* synchronize_container_state: podman run --rm --rmi --name <name> ...
podman_run(t) ==
    /\ task[t].pc = "run"
    /\ \E failed \in BOOLEAN :
         Work(t, try_quiet(t, failed, [task[t] EXCEPT !.pc = "ps"]),
              <<[command |-> "run", failed |-> failed,
                 args |-> <<ImageUrl(task[t].manifest_reference.location),
                            ContainerName(task[t].manifest_reference.location)>>
                          \o [i \in 1..Len(task[t].volumes) |->
                                bind_volume(host_path(task[t].manifest_reference,
                                                      task[t].volumes[i]),
                                            container_path(task[t].volumes[i]))]]>>)
    /\ UNCHANGED <<storeVars, listed, installed, master_key, routing_table, lock, configs, volume_dirs>>

\* updated_published_set -> fetch_managed_containers: podman ps; when it
\* fails try_quiet! ends updated_published_set, and the caller answers.
podman_ps(t) ==
    /\ task[t].pc = "ps"
    /\ \/ /\ task' = [task EXCEPT ![t] = IdleTask]
          /\ resp' = task[t].after
          /\ listed' = listed
       \/ \E listing \in Listings :
            /\ task' = [task EXCEPT ![t] =
                          [task[t] EXCEPT !.pc = IF listing = <<>> THEN "update_lock"
                                                 ELSE "load",
                                          !.listing = listing, !.index = 1,
                                          !.running = <<>>,
                                          !.built = RoutingTableDefault]]
            /\ resp' = NoResp
            /\ listed' = ListedBy(t)
    /\ podman' = <<[command |-> "ps", args |-> <<>>]>>
    /\ req' = task[t].request
    /\ upstream' = <<>>
    /\ UNCHANGED <<storeVars, installed, master_key, routing_table, lock, configs, volume_dirs>>

\* load_managed_container gives an error for this container of a listing:
\* `self.load_config(&manifest_reference).await?`, or
\* `.context("could not get host listening address")?`
load_fails(container_json, stored) ==
    LET manifest_reference == manifest_reference_of(container_json)
        port_mapping == active_published_port(container_json)
    IN  /\ manifest_reference.some
        /\ port_mapping.some
        /\ \/ load_config_fails(stored, manifest_reference.value)
           \/ ~get_host_listening_addr(port_mapping.value).some

\* "TODO: Just log error instead of returning."
load_error_logged(error) == FALSE

\* fetch_managed_containers: `self.load_managed_container(container).await?`
\* returns the error of the container, and try_quiet! of
\* updated_published_set ends the call.
load_error_returned(error) == error

\* fetch_managed_containers: `for container in all_containers`, one turn:
\* load_managed_container skips what is not managed or not published, reads
\* the configuration, and fails the whole fetch on a configuration that
\* does not load or an address it cannot use.
load_managed_container(t) ==
    /\ task[t].pc = "load"
    /\ LET container_json == task[t].listing[task[t].index]
           manifest_reference == manifest_reference_of(container_json)
           port_mapping == active_published_port(container_json)
           error == load_fails(container_json, configs)
           skipped == ~manifest_reference.some \/ ~port_mapping.some \/ error
           host_addr == IF skipped THEN None
                        ELSE get_host_listening_addr(port_mapping.value)
           running == IF skipped THEN task[t].running
                      ELSE task[t].running \o
                           <<PublishedContainer(host_addr.value, manifest_reference.value,
                                                load_config(configs, manifest_reference.value))>>
           final == task[t].index = Len(task[t].listing)
       IN  IF load_error_returned(error)
           THEN /\ task' = [task EXCEPT ![t] = IdleTask]
                /\ resp' = task[t].after
                /\ listed' = ListingDropped(t)
           ELSE /\ task' = [task EXCEPT ![t] =
                              [task[t] EXCEPT !.pc = IF final THEN "update_lock" ELSE "load",
                                              !.index = task[t].index + 1,
                                              !.running = running,
                                              !.built = IF final THEN from_containers(running)
                                                        ELSE RoutingTableDefault]]
                /\ resp' = NoResp
                /\ listed' = listed
    /\ podman' = <<>>
    /\ req' = task[t].request
    /\ upstream' = <<>>
    /\ UNCHANGED <<storeVars, installed, master_key, routing_table, lock, configs, volume_dirs>>

\* The orchestrator behind a registry that reports uploads to it.
ProtectedConfig == RuntimeConfig(Some((<<"user">> :> <<"pw">>)))

TwoUsersConfig ==
    RuntimeConfig(Some((<<"user">> :> <<"pw">>) @@ (<<"nobody">> :> <<"pw">>)))

StoredConfigs ==
    {<<>>,
     (namespaced_dir(ManifestReferenceNew(ImageLocation(<<"foo">>, <<"bar">>),
                                          ReferenceTag(<<"prod">>)))
        :> TomlBody(ProtectedConfig))}

ReconcileInit ==
    /\ RegistryInit
    /\ master_key = [variant |-> "Locked", key |-> <<>>]
    /\ routing_table = RoutingTableDefault
    /\ lock = [readers |-> {}, writer |-> {}]
    /\ configs \in StoredConfigs
    /\ volume_dirs = {}
    /\ podman = <<>>
    /\ upstream = <<>>
    /\ installed = RoutingTableDefault
    /\ listed = NoListing

\* A request or an event that is taken up while no other is in flight.
OneAtATime(t) == \A other \in Tasks \ {t} : task[other].kind = "idle"

ReconcileNext ==
    \E t \in Tasks :
        \/ OneAtATime(t) /\ orchestrator_on_manifest_uploaded(t)
        \/ podman_inspect(t)
        \/ podman_rm(t)
        \/ podman_login(t)
        \/ podman_pull(t)
        \/ prepare_volume(t)
        \/ podman_run(t)
        \/ podman_ps(t)
        \/ load_managed_container(t)
        \/ update_containers_lock(t)
        \/ update_containers_swap(t)
        \/ update_containers_unlock(t)

ReconcileSpec == ReconcileInit /\ [][ReconcileNext]_vars

\* ReverseProxy::update_containers is called with `containers`: the table
\* is built by RoutingTable::from_containers before the lock is asked for.
update_containers_call(t, containers) ==
    /\ Free(t)
    /\ Work(t, [HookTask(NoManifestReference, "update_lock") EXCEPT
                  !.running = containers,
                  !.built = from_containers(containers)],
            <<>>)
    /\ UNCHANGED <<storeVars, listed, installed, master_key, routing_table, lock, configs, volume_dirs>>

\* The containers that update_containers is called with: two addresses for
\* each of three images, two of which differ in the case of the repository.
TableLocations ==
    {ImageLocation(<<"foo">>, <<"bar">>),
     ImageLocation(<<"Example", ".", "com">>, <<"app">>),
     ImageLocation(<<"example", ".", "COM">>, <<"app">>)}

TableContainers ==
    {PublishedContainer(<<"127.0.0.1", ":", port>>,
                        ManifestReferenceNew(location, ReferenceTag(<<":", "prod">>)),
                        RuntimeConfigDefault) :
        location \in TableLocations, port \in {"12345", "12346"}}

MaxContainers == 3

ContainerLists ==
    UNION {[1..n -> TableContainers] : n \in 0..MaxContainers}

TableNext ==
    \E t \in Tasks :
        \/ OneAtATime(t)
           /\ \E containers \in ContainerLists : update_containers_call(t, containers)
        \/ update_containers_lock(t)
        \/ update_containers_swap(t)
        \/ update_containers_unlock(t)

TableSpec == Init /\ [][TableNext]_vars

\* The container that synchronize_container_state starts for `location`, as
\* `podman ps` lists it: --name rockslide-<repository>-<image>, the image
\* it was run from, and the port that --publish 127.0.0.1::8000 was given.
StartedContainer(location, host_port) ==
    [names |-> <<ContainerName(location)>>,
     image |-> ImageUrl(location),
     ports |-> <<[host_ip |-> "127.0.0.1", host_port |-> host_port]>>]

\* The images that were pushed with the production tag.
StartedLocations ==
    {ImageLocation(<<"foo">>, <<"bar">>),
     ImageLocation(<<"foo">>, <<"my", "-", "app">>),
     ImageLocation(<<"my", "-", "org">>, <<"app">>),
     ImageLocation(<<"Example", ".", "com">>, <<"app">>)}

\* ContainerJson with a name that starts with "rockslide-"
Managed(container_json) ==
    \E i \in 1..Len(container_json.names) :
        starts_with(container_json.names[i], <<"rockslide-">>)

\* What `podman ps` lists on a host where reconciliation has started
\* containers next to containers of other origin.
StartedListings ==
    LET shown == {StartedContainer(location, "12345") : location \in StartedLocations}
                  \cup {other \in ContainerJsons : ~Managed(other)}
    IN  {<<one>> : one \in shown} \cup {<<one, two>> : one \in shown, two \in shown}

\* updated_published_set -> fetch_managed_containers: podman ps has listed
\* `listing`, and the loop over it begins.
podman_ps_listed(t, listing) ==
    /\ Free(t)
    /\ Work(t, [HookTask(NoManifestReference, "load") EXCEPT
                  !.listing = listing, !.index = 1],
            <<[command |-> "ps", args |-> <<>>]>>)
    /\ listed' = ListedBy(t)
    /\ UNCHANGED <<storeVars, installed, master_key, routing_table, lock, configs, volume_dirs>>

\* The configurations on disk: none, one that save_config wrote, or a
\* file that is not a TOML document of a RuntimeConfig.
NamingConfigs ==
    StoredConfigs
    \cup {namespaced_dir(ManifestReferenceNew(ImageLocation(<<"foo">>, <<"bar">>),
                                               ReferenceTag(<<"prod">>)))
             :> TextBody}

NamingInit ==
    /\ RegistryInit
    /\ master_key = [variant |-> "Locked", key |-> <<>>]
    /\ routing_table = RoutingTableDefault
    /\ lock = [readers |-> {}, writer |-> {}]
    /\ configs \in NamingConfigs
    /\ volume_dirs = {}
    /\ podman = <<>>
    /\ upstream = <<>>
    /\ installed = RoutingTableDefault
    /\ listed = NoListing

\* updated_published_set, called for a push that is not of the production
\* tag or with a listing of containers that reconciliation started.
NamingNext ==
    \E t \in Tasks :
        \/ OneAtATime(t)
           /\ \E listing \in StartedListings : podman_ps_listed(t, listing)
        \/ OneAtATime(t)
           /\ orchestrator_on_manifest_uploaded(t)
           /\ ~IsProduction(task'[t].manifest_reference)
        \/ podman_ps(t)
        \/ load_managed_container(t)
        \/ update_containers_lock(t)
        \/ update_containers_swap(t)
        \/ update_containers_unlock(t)

NamingSpec == NamingInit /\ [][NamingNext]_vars

\* The registry and the orchestrator side by side: pushes of the tag `prod`
\* and handlers of manifest-uploaded events for it, one of each at a time.
PushedReferences == {r \in ManifestReferences : r.reference = ReferenceTag("prod")}

PushNext ==
    \E t \in Tasks :
        \/ /\ \A other \in Tasks : task[other].kind # "manifest_put"
           /\ \E manifest_reference \in PushedReferences :
                manifest_put_begin(t, manifest_reference)
        \/ put_manifest_write(t)
        \/ put_manifest_mkdir(t)
        \/ put_manifest_symlink(t)
        \/ put_manifest_rename(t)
        \/ /\ \A other \in Tasks : task[other].kind # "hook"
           /\ orchestrator_on_manifest_uploaded(t)
           /\ IsProduction(task'[t].manifest_reference)
        \/ podman_inspect(t) /\ Len(task'[t].keys) <= 1
        \/ podman_rm(t)
        \/ podman_login(t)
        \/ podman_pull(t)
        \/ prepare_volume(t)
        \/ podman_run(t)
        \/ podman_ps(t) /\ (task'[t].kind = "hook" => Len(task'[t].listing) <= 1)
        \/ load_managed_container(t)
        \/ update_containers_lock(t)
        \/ update_containers_swap(t)
        \/ update_containers_unlock(t)

PushSpec == Init /\ [][PushNext]_vars

\* --------------------------------------------------------------- requests
\* A request to the reverse proxy: the method, the Host header if there is
\* one, the path and the query of the URI, the Authorization header if
\* there is one, and the body if there is one.
Request(method, host, path, query, authorization, body) ==
    [kind |-> "proxy", method |-> method, host |-> host, path |-> path,
     query |-> query, authorization |-> authorization, body |-> body,
     headers |-> <<>>]

\* The headers of a request besides Host and Authorization, in the order
\* they were sent, each a name as the client wrote it and a value.
Header(name, value) == [name |-> name, value |-> value]

WithHeaders(request, headers) == [request EXCEPT !.headers = headers]

\* Uri::path_and_query, as written
PathOnly(path, query) == path

PathAndQuery(path, query) ==
    path \o (IF query.some THEN <<"?">> \o query.value ELSE <<>>)

\* impl Display for Uri, for a URI with a scheme: an empty path is "/"
UriDisplay(authority, path, query) ==
    <<"http://">> \o authority
    \o PathAndQuery(IF path = <<>> THEN <<"/">> ELSE path, query)

\* enum Destination
ReverseProxied(uri, script_name, config) ==
    [variant |-> "ReverseProxied", uri |-> uri, script_name |-> script_name,
     config |-> config]

Internal(uri) ==
    [variant |-> "Internal", uri |-> uri, script_name |-> None,
     config |-> RuntimeConfigDefault]

DestinationNotFound ==
    [variant |-> "NotFound", uri |-> <<>>, script_name |-> None,
     config |-> RuntimeConfigDefault]

\* get_destination_uri_from_request, "First, attempt to match a domain"
opt_domain_keeping_port(request) ==
    IF request.host.some THEN DomainNew(request.host.value) ELSE None

opt_domain(request) ==
    IF request.host.some
    THEN LET host_header == request.host.value
             colon == rfind(host_header, ":")
             candidate == IF colon # 0 THEN SubSeq(host_header, 1, colon - 1)
                          ELSE host_header
         IN  DomainNew(candidate)
    ELSE None

domain_destination(table, request) ==
    LET domain == opt_domain(request)
        pc == IF domain.some THEN get_domain_route(table, domain.value) ELSE None
    IN  IF pc.some
        THEN Some(ReverseProxied(UriDisplay(pc.value.host_addr, request.path, request.query),
                                 None, pc.value.config))
        ELSE None

\* split_path_base_url
RECURSIVE Slashed(_)
Slashed(segments) ==
    IF segments = <<>> THEN <<>>
    ELSE <<"/">> \o Head(segments) \o Slashed(Tail(segments))

split_path_base_url(path) ==
    LET segments == SelectSeq(split(path, "/"), LAMBDA segment : segment # <<>>)
    IN  IF Len(segments) < 2 THEN None
        ELSE Some([image_location |-> ImageLocation(segments[1], segments[2]),
                   remainder |-> Slashed(SubSeq(segments, 3, Len(segments)))])

\* get_destination_uri_from_request, "let's try with a path"
path_destination(table, request) ==
    IF starts_with(request.path, <<"/", "_rockslide">>)
    THEN Internal(PathAndQuery(request.path, request.query))
    ELSE LET base == split_path_base_url(request.path)
             pc == IF base.some THEN get_path_route(table, base.value.image_location)
                   ELSE None
         IN  IF pc.some
             THEN ReverseProxied(
                    UriDisplay(pc.value.host_addr,
                               base.value.remainder
                               \o (IF ends_with(request.path, <<"/">>) THEN <<"/">> ELSE <<>>),
                               request.query),
                    Some(<<"/">> \o ImageLocationDisplay(base.value.image_location)),
                    pc.value.config)
             ELSE DestinationNotFound

\* RoutingTable::get_destination_uri_from_request
get_destination_uri_from_request(table, request) ==
    LET by_domain == domain_destination(table, request)
    IN  IF by_domain.some THEN by_domain.value ELSE path_destination(table, request)

\* --------------------------------------------------------- authentication
\* An Authorization header: "Basic <base64 of user:password>", "Basic"
\* followed by something that is not that, or another scheme.
BasicHeader(username, password) ==
    [scheme |-> "Basic",
     credentials |-> Some([username |-> username, password |-> password])]

UndecodableHeader == [scheme |-> "Basic", credentials |-> None]

BearerHeader == [scheme |-> "Bearer", credentials |-> None]

\* www_authenticate::basic_auth_response: the user name and the password of
\* an `Authorization: Basic` header
basic_auth_response(auth_header) ==
    IF auth_header.scheme = "Basic" /\ auth_header.credentials.some
    THEN auth_header.credentials
    ELSE None

NoCredentials == [username |-> <<>>, password |-> <<>>]

\* impl FromRequestParts for UnverifiedCredentials: 401 without the header,
\* 400 for a header that does not parse
UnverifiedCredentials(authorization) ==
    IF authorization.some
    THEN LET basic == basic_auth_response(authorization.value)
         IN  IF basic.some THEN [ok |-> TRUE, creds |-> basic.value, status |-> 200]
             ELSE [ok |-> FALSE, creds |-> NoCredentials, status |-> 400]
    ELSE [ok |-> FALSE, creds |-> NoCredentials, status |-> 401]

\* impl AuthProvider for MasterKey: check_credentials
MasterKeyUnlocked(key, creds) == key.variant # "Locked"

MasterKeyCheckCredentials(key, creds) ==
    IF key.variant = "Locked" THEN FALSE ELSE creds.password = key.key

\* impl AuthProvider for HashMap<String, Secret<String>>: check_credentials
HashMapHasUser(map, creds) == creds.username \in DOMAIN map

HashMapCheckCredentials(map, creds) ==
    /\ creds.username \in DOMAIN map
    /\ map[creds.username] = creds.password

\* ---------------------------------------------------------- reverse proxy
\* A response of the reverse proxy.
ProxyResp(status, www_authenticate, config) ==
    [kind |-> "proxy", status |-> status, www_authenticate |-> www_authenticate,
     config |-> config]

\* impl IntoResponse for AppError (reverse_proxy.rs)
AuthFailure(realm, status) ==
    ProxyResp(status, Some(<<"basic realm=", realm>>), None)

ProxyError(variant) ==
    ProxyResp(CASE variant \in {"NoSuchContainer", "InternalUrlInvalid",
                                "AssertionFailed"} -> 404
                [] variant \in {"NonUtf8Header", "InvalidPayload", "BodyReadError"} -> 400
                [] OTHER -> 500,
              None, None)

\* impl IntoResponse for RuntimeConfig: 200 with `config_toml`, one of the
\* texts of to_string_pretty
ConfigIntoResponse(config_toml) == ProxyResp(200, None, Some(config_toml))

\* `request.extract::<Option<String>, _>()`: the body as a string, which
\* is the empty string when there is none, unless it cannot be read
opt_body(body) ==
    IF ~body.some THEN Some(Toml(FALSE, None))
    ELSE IF body.value.kind = "large" THEN None
    ELSE Some(body.value)

RouteTask(request, expect, by_domain, seen_domain) ==
    [kind |-> "route", pc |-> "locked", manifest_reference |-> NoManifestReference,
     volumes |-> <<>>, index |-> 0, listing |-> <<>>, running |-> <<>>,
     built |-> RoutingTableDefault, after |-> NoResp, request |-> request,
     expect |-> expect, by_domain |-> by_domain,
     seen |-> [domain_maps |-> seen_domain, path_maps |-> None],
     dest |-> DestinationNotFound]

\* route_request: `rp.routing_table.read().await`, and the part of
\* get_destination_uri_from_request that looks at the domains.
route_request_lock(t, request) ==
    /\ Free(t)
    /\ CanRead
    /\ lock' = [lock EXCEPT !.readers = @ \cup {t}]
    /\ task' = [task EXCEPT ![t] =
                  RouteTask(request, installed,
                            domain_destination(routing_table, request),
                            IF opt_domain(request).some
                            THEN Some(routing_table.domain_maps) ELSE None)]
    /\ req' = request
    /\ resp' = NoResp
    /\ podman' = <<>>
    /\ upstream' = <<>>
    /\ UNCHANGED <<storeVars, listed, installed, master_key, routing_table, configs, volume_dirs>>

\* A read guard that lives as long as the handler.
read_guard_kept(readers, t) == readers

\* route_request: the block `let dest_uri = { ... };` ends and the read
\* guard `routing_table` goes out of scope.
read_guard_dropped(readers, t) == readers \ {t}

\* route_request: the part of get_destination_uri_from_request that looks
\* at the path, and the guard is dropped.
route_request_unlock(t) ==
    /\ task[t].pc = "locked"
    /\ LET request == task[t].request
           by_path == ~task[t].by_domain.some
                      /\ ~starts_with(request.path, <<"/", "_rockslide">>)
                      /\ split_path_base_url(request.path).some
           dest == IF task[t].by_domain.some THEN task[t].by_domain.value
                   ELSE path_destination(routing_table, request)
       IN  task' = [task EXCEPT ![t] =
                      [task[t] EXCEPT !.pc = "dispatch", !.dest = dest,
                                      !.seen.path_maps =
                                          IF by_path THEN Some(routing_table.path_maps)
                                          ELSE None]]
    /\ lock' = [lock EXCEPT !.readers = read_guard_dropped(@, t)]
    /\ req' = task[t].request
    /\ resp' = NoResp
    /\ podman' = <<>>
    /\ upstream' = <<>>
    /\ UNCHANGED <<storeVars, listed, installed, master_key, routing_table, configs, volume_dirs>>

\* mod known_headers
HOP_BY_HOP ==
    {"keep-alive", "transfer-encoding", "te", "connection", "trailer", "upgrade",
     "proxy-authorization", "proxy-authenticate"}

NoneBlacklisted == {}

BLACKLISTED == {"x-script-name"}

\* HeaderName: a header name is kept in lower case
HeaderName(raw) == LowerSymbol(raw)

\* HeaderValue::to_str: the value has only visible ASCII
to_str_ok(value) == ~contains(value, "0xFF")

\* route_request: the loop over `request.headers()`, then "Attach script name"
upstream_headers(headers, script_name) ==
    LET named == [i \in 1..Len(headers) |->
                    Header(HeaderName(headers[i].name), headers[i].value)]
        copied == SelectSeq(named,
                            LAMBDA header :
                                /\ header.name \notin BLACKLISTED
                                /\ header.name \notin HOP_BY_HOP
                                /\ to_str_ok(header.value))
    IN  copied \o (IF script_name.some
                   THEN <<Header(HeaderName("X-Script-Name"), script_name.value)>>
                   ELSE <<>>)

\* What a container answers: a status, or nothing that reqwest can use.
UpstreamAnswers == {200, 404, 0}

\* route_request, Destination::ReverseProxied: the access check, the body
\* and the upstream request
route_reverse_proxied(t) ==
    /\ task[t].pc = "dispatch"
    /\ task[t].dest.variant = "ReverseProxied"
    /\ LET request == task[t].request
           http_access == task[t].dest.config.http.access
           extracted == UnverifiedCredentials(request.authorization)
       IN  IF http_access.some /\ ~extracted.ok
           THEN /\ resp' = AuthFailure("password protected container", extracted.status)
                /\ upstream' = <<>>
           ELSE IF http_access.some
                   /\ ~HashMapCheckCredentials(http_access.value, extracted.creds)
           THEN /\ resp' = AuthFailure("password protected container", 401)
                /\ upstream' = <<>>
           ELSE IF request.body.some /\ request.body.value.kind = "large"
           THEN /\ resp' = ProxyError("BodyReadError")
                /\ upstream' = <<>>
           ELSE \E answer \in UpstreamAnswers :
                  /\ upstream' = <<[method |-> request.method, uri |-> task[t].dest.uri,
                                    script_name |-> task[t].dest.script_name,
                                    headers |-> upstream_headers(
                                                    request.headers,
                                                    task[t].dest.script_name)]>>
                  /\ resp' = ProxyResp(IF answer = 0 THEN 500 ELSE answer, None, None)
    /\ task' = [task EXCEPT ![t] = IdleTask]
    /\ req' = task[t].request
    /\ podman' = <<>>
    /\ UNCHANGED <<storeVars, listed, installed, master_key, routing_table, lock, configs, volume_dirs>>

\* route_request, Destination::Internal
ManagementPrefix == <<"/", "_rockslide", "/", "config", "/">>

route_internal(t) ==
    /\ task[t].pc = "dispatch"
    /\ task[t].dest.variant = "Internal"
    /\ LET request == task[t].request
           extracted == UnverifiedCredentials(request.authorization)
           remainder == strip_prefix(request.path, ManagementPrefix)
           parts == IF remainder.some THEN split(remainder.value, "/") ELSE <<>>
           manifest_reference ==
               ManifestReferenceNew(ImageLocation(parts[1], parts[2]), ReferenceTag(parts[3]))
           raw == opt_body(request.body)
           new_config == IF raw.some THEN toml_from_str(raw.value) ELSE None
           answer(response) ==
               /\ task' = [task EXCEPT ![t] = IdleTask]
               /\ resp' = response
               /\ configs' = configs
       IN  IF ~extracted.ok THEN answer(AuthFailure("internal", extracted.status))
           ELSE IF ~MasterKeyCheckCredentials(master_key, extracted.creds)
           THEN answer(AuthFailure("internal", 401))
           ELSE IF ~remainder.some \/ Len(parts) # 3 THEN answer(ProxyError("InternalUrlInvalid"))
           ELSE IF parts[3] # <<"prod">> THEN answer(ProxyError("InternalUrlInvalid"))
           ELSE IF request.method = "GET"
           THEN \E config_toml \in to_string_pretty(load_config(configs, manifest_reference)) :
                  answer(ConfigIntoResponse(config_toml))
           ELSE IF request.method # "PUT" THEN answer(ProxyError("InternalUrlInvalid"))
           ELSE IF ~new_config.some THEN answer(ProxyError("InvalidPayload"))
           ELSE \E toml \in to_string_pretty(new_config.value) :
                  LET written == (namespaced_dir(manifest_reference) :> toml) @@ configs
                      stored == load_config(written, manifest_reference)
                  IN  /\ configs' = written
                      /\ \E config_toml \in to_string_pretty(stored) :
                            task' = [task EXCEPT ![t] =
                                       [task[t] EXCEPT
                                          !.pc = "ps",
                                          !.manifest_reference = manifest_reference,
                                          !.after = ConfigIntoResponse(config_toml)]]
                      /\ resp' = NoResp
    /\ req' = task[t].request
    /\ podman' = <<>>
    /\ upstream' = <<>>
    /\ UNCHANGED <<storeVars, listed, installed, master_key, routing_table, lock, volume_dirs>>

\* route_request, Destination::NotFound
route_not_found(t) ==
    /\ task[t].pc = "dispatch"
    /\ task[t].dest.variant = "NotFound"
    /\ task' = [task EXCEPT ![t] = IdleTask]
    /\ resp' = ProxyError("NoSuchContainer")
    /\ req' = task[t].request
    /\ podman' = <<>>
    /\ upstream' = <<>>
    /\ UNCHANGED <<storeVars, listed, installed, master_key, routing_table, lock, configs, volume_dirs>>

\* The reverse proxy with its management surface, under a master key.
MasterKeyOf(key) == [variant |-> "Key", key |-> key]

Admin == BasicHeader(<<"admin">>, <<"k">>)

ConfigPath == ManagementPrefix \o <<"foo", "/", "bar", "/", "prod">>

RoutingRequests ==
    {Request("GET", None, <<"/", "foo", "/", "bar", "/", "x">>, None, None, None),
     Request("GET", Some(<<"Example", ".", "COM", ":", "8080">>), <<"/", "x">>,
             None, None, None),
     Request("PUT", None, ConfigPath, None, Some(Admin), Some(TomlBody(ProtectedConfig)))}

RoutingInit ==
    /\ RegistryInit
    /\ master_key = MasterKeyOf(<<"k">>)
    /\ routing_table = RoutingTableDefault
    /\ lock = [readers |-> {}, writer |-> {}]
    /\ configs = <<>>
    /\ volume_dirs = {}
    /\ podman = <<>>
    /\ upstream = <<>>
    /\ installed = RoutingTableDefault
    /\ listed = NoListing

RoutingNext ==
    \E t \in Tasks :
        \/ \E request \in RoutingRequests : route_request_lock(t, request)
        \/ route_request_unlock(t)
        \/ route_reverse_proxied(t)
        \/ route_internal(t)
        \/ route_not_found(t)
        \/ podman_ps(t)
        \/ load_managed_container(t)
        \/ update_containers_lock(t)
        \/ update_containers_swap(t)
        \/ update_containers_unlock(t)

RoutingSpec == RoutingInit /\ [][RoutingNext]_vars

\* ----------------------------------------------- the proxy, request by request
\* impl Deserialize for MasterKey: Option<String> -> Key or Locked
MasterKeyDeserialize(source) ==
    IF source.some THEN [variant |-> "Key", key |-> source.value]
    ELSE [variant |-> "Locked", key |-> <<>>]

\* rockslide.master_key of the configuration file: unset, "" or "k"
MasterKeySources == {None, Some(<<>>), Some(<<"k">>)}

\* fetch_managed_containers over a listing, when no container fails it
RECURSIVE fetch_managed_containers(_, _)
fetch_managed_containers(listing, stored) ==
    IF listing = <<>> THEN <<>>
    ELSE LET manifest_reference == manifest_reference_of(Head(listing))
             port_mapping == active_published_port(Head(listing))
         IN  (IF manifest_reference.some /\ port_mapping.some
              THEN <<PublishedContainer(get_host_listening_addr(port_mapping.value).value,
                                        manifest_reference.value,
                                        load_config(stored, manifest_reference.value))>>
              ELSE <<>>)
             \o fetch_managed_containers(Tail(listing), stored)

\* The tables that update_containers may have put in place.
ProxyTables(stored) ==
    {from_containers(fetch_managed_containers(listing, stored)) :
        listing \in {l \in Listings :
                        \A i \in 1..Len(l) : l[i].ports[1].host_ip # ""}}

Hosts ==
    {None, Some(<<"localhost">>), Some(<<"Example", ".", "COM", ":", "8080">>),
     Some(<<"other", ".", "org">>)}

Paths ==
    {<<"/">>,
     <<"/", "foo">>,
     <<"/", "foo", "/", "bar">>,
     <<"/", "foo", "/", "bar", "/">>,
     <<"/", "foo", "/", "bar", "/", "x", "/", "y">>,
     <<"/", "foo", "/", "/", "bar", "/", "x", "/">>,
     <<"/", "nope", "/", "bar", "/", "x">>,
     <<"/", "Example", ".", "com", "/", "app", "/", "z">>,
     ConfigPath,
     ManagementPrefix \o <<"foo", "/", "bar", "/", "latest">>,
     ManagementPrefix \o <<"foo", "/", "bar">>,
     <<"/", "_rockslide", "/", "other">>,
     <<"/", "_rockslide">>}

Queries == {None, Some(<<"q=1">>)}

\* Header lists with an X-Script-Name of the client's, in several spellings
\* and more than once, next to a hop-by-hop header, a header that is passed
\* on and one whose value is not text.
HeaderLists ==
    {<<Header("X-Script-Name", <<"/", "evil">>)>>,
     <<Header("x-script-name", <<"/", "evil">>), Header("X-Other", <<"v">>)>>,
     <<Header("X-SCRIPT-NAME", <<"/", "foo", "/", "bar">>)>>,
     <<Header("Connection", <<"close">>), Header("X-Other", <<"0xFF">>)>>,
     <<Header("X-Other", <<"v">>), Header("X-Script-Name", <<"/", "evil">>),
       Header("x-script-name", <<>>)>>}

Authorizations ==
    {None, Some(UndecodableHeader), Some(BearerHeader),
     Some(BasicHeader(<<"user">>, <<"pw">>)), Some(BasicHeader(<<"user">>, <<"bad">>)),
     Some(BasicHeader(<<"nobody">>, <<"pw">>)),
     Some(Admin), Some(BasicHeader(<<"admin">>, <<>>))}

ProxyRequests ==
    {Request("GET", host, path, query, None, None) :
        host \in Hosts, path \in Paths, query \in Queries}
    \cup {Request("GET", host, path, None, authorization, None) :
            host \in {None, Some(<<"Example", ".", "COM", ":", "8080">>)},
            path \in {<<"/", "foo", "/", "bar", "/", "x", "/", "y">>, ConfigPath,
                      <<"/", "_rockslide", "/", "other">>},
            authorization \in Authorizations}
    \cup {Request("PUT", host, path, None, authorization, body) :
            host \in {None, Some(<<"Example", ".", "COM", ":", "8080">>)},
            path \in {<<"/", "foo", "/", "bar", "/", "x", "/", "y">>, ConfigPath},
            authorization \in {None, Some(Admin), Some(BasicHeader(<<"user">>, <<"pw">>))},
            body \in {None, Some(TomlBody(ProtectedConfig)),
                      Some(TomlBody(RuntimeConfigDefault)), Some(TextBody),
                      Some(LargeBody)}}
    \cup {Request("POST", None, ConfigPath, None, Some(Admin), None)}
    \cup {Request(method, host, path, None, Some(Admin),
                   IF method = "PUT" THEN Some(TomlBody(ProtectedConfig)) ELSE None) :
            method \in {"GET", "PUT"},
            host \in {None, Some(<<"Example", ".", "COM", ":", "8080">>)},
            path \in {ManagementPrefix \o <<"foo", "/", "bar", "/", "latest">>,
                      ManagementPrefix \o <<"foo", "/", "bar">>,
                      ConfigPath \o <<"/", "x">>}}
    \cup {Request("PUT", None, ConfigPath, None, Some(Admin), Some(body)) :
            body \in {TomlBody(TwoUsersConfig),
                      Toml(TRUE, Some(<<Entry(<<"user">>, <<"pw">>),
                                        Entry(<<"user">>, <<"bad">>)>>))}}
    \cup {WithHeaders(Request("GET", host, <<"/", "foo", "/", "bar", "/", "x", "/", "y">>,
                              None, None, None), headers) :
            host \in {None, Some(<<"Example", ".", "COM", ":", "8080">>)},
            headers \in HeaderLists}

ProxyInit ==
    /\ RegistryInit
    /\ master_key = MasterKeyOf(<<"k">>)
    /\ configs \in StoredConfigs
    /\ routing_table \in ProxyTables(configs)
    /\ installed = routing_table
    /\ listed = NoListing
    /\ lock = [readers |-> {}, writer |-> {}]
    /\ volume_dirs = {}
    /\ podman = <<>>
    /\ upstream = <<>>

ProxyNext ==
    \E t \in Tasks :
        \/ OneAtATime(t) /\ (\E request \in ProxyRequests : route_request_lock(t, request))
        \/ route_request_unlock(t)
        \/ route_reverse_proxied(t)
        \/ route_internal(t)
        \/ route_not_found(t)
        \/ podman_ps(t)
        \/ load_managed_container(t)
        \/ update_containers_lock(t)
        \/ update_containers_swap(t)
        \/ update_containers_unlock(t)

ProxySpec == ProxyInit /\ [][ProxyNext]_vars

\* ------------------------------------------------------------- start-up
\* synchronize_all: `self.fetch_managed_containers(true).await?` with the
\* listing that `podman ps --all` gives; the error of a container that
\* does not load ends synchronize_all.
synchronize_all_fetch(t, listing) ==
    /\ Free(t)
    /\ LET failed == \E i \in 1..Len(listing) : load_fails(listing[i], configs)
           containers == fetch_managed_containers(listing, configs)
       IN  Work(t,
                IF failed \/ containers = <<>> THEN IdleTask
                ELSE [HookTask(NoManifestReference, "synchronize") EXCEPT
                        !.listing = listing, !.running = containers, !.index = 1],
                <<[command |-> "ps", args |-> <<"--all">>]>>)
    /\ UNCHANGED <<storeVars, listed, installed, master_key, routing_table, lock, configs,
                   volume_dirs>>

\* synchronize_all: one turn of `for container in ...`, which calls
\* synchronize_container_state(container.manifest_reference()) up to its
\* test of the reference; a reference that is not the production tag ends
\* the call at once, and the loop goes on.
synchronize_all_turn(t) ==
    /\ task[t].pc = "synchronize"
    /\ LET manifest_reference == task[t].running[task[t].index].manifest_reference
           final == task[t].index = Len(task[t].running)
       IN  Work(t,
                IF IsProduction(manifest_reference)
                THEN [task[t] EXCEPT !.pc = "inspect",
                                     !.manifest_reference = manifest_reference]
                ELSE IF final THEN IdleTask
                ELSE [task[t] EXCEPT !.index = task[t].index + 1],
                <<>>)
    /\ UNCHANGED <<storeVars, listed, installed, master_key, routing_table, lock, configs,
                   volume_dirs>>

\* synchronize_all on a host where reconciliation has started containers.
StartupNext ==
    \E t \in Tasks :
        \/ \E listing \in StartedListings : synchronize_all_fetch(t, listing)
        \/ synchronize_all_turn(t)

StartupSpec == NamingInit /\ [][StartupNext]_vars

\* ------------------------------------------------- the registry's guard
\* DockerRegistry::realm
realm == "TODO REGISTRY"

\* The auth provider of the registry is the master key of the configuration.
registry_auth_provider == master_key

\* A request to the registry, as far as the guard looks at it, and the
\* response of the guard or of index_v2; `entered` says that the handler ran.
RegistryRequest(endpoint, authorization) ==
    [kind |-> "registry", endpoint |-> endpoint, authorization |-> authorization]

RegistryResp(status, www_authenticate, entered) ==
    [kind |-> "registry", status |-> status, www_authenticate |-> www_authenticate,
     entered |-> entered]

\* The handlers of make_router that take `_auth: ValidUser`
GuardedEndpoints ==
    {"blob_check", "blob_get", "upload_new", "upload_add_chunk", "upload_finalize",
     "manifest_put", "manifest_get"}

\* axum's Option<T> extractor, as index_v2 uses it: a rejection is None
OptionalCredentials(authorization) ==
    LET extracted == UnverifiedCredentials(authorization)
    IN  IF extracted.ok THEN Some(extracted.creds) ELSE None

\* impl FromRequestParts for ValidUser
ValidUser(authorization) ==
    LET unverified == UnverifiedCredentials(authorization)
    IN  IF ~unverified.ok THEN unverified
        ELSE IF ~MasterKeyCheckCredentials(registry_auth_provider, unverified.creds)
        THEN [ok |-> FALSE, creds |-> NoCredentials, status |-> 401]
        ELSE unverified

\* index_v2
index_v2(t) ==
    /\ Free(t)
    /\ \E authorization \in Authorizations :
         LET credentials == OptionalCredentials(authorization)
             granted == credentials.some
                        /\ MasterKeyCheckCredentials(registry_auth_provider,
                                                     credentials.value)
         IN  /\ req' = RegistryRequest("index_v2", authorization)
             /\ resp' = RegistryResp(IF granted THEN 200 ELSE 401,
                                     Some(<<"Basic realm=\"", realm, "\"">>), TRUE)
    /\ podman' = <<>>
    /\ upstream' = <<>>
    /\ UNCHANGED <<storeVars, listed, task, installed, master_key, routing_table, lock, configs,
                   volume_dirs>>

\* A request to a guarded endpoint that ValidUser rejects: the handler is
\* not entered and the rejection is the response.
valid_user_rejects(t) ==
    /\ Free(t)
    /\ \E endpoint \in GuardedEndpoints, authorization \in Authorizations :
         /\ ~ValidUser(authorization).ok
         /\ req' = RegistryRequest(endpoint, authorization)
         /\ resp' = RegistryResp(ValidUser(authorization).status, None, FALSE)
    /\ podman' = <<>>
    /\ upstream' = <<>>
    /\ UNCHANGED <<storeVars, listed, task, installed, master_key, routing_table, lock, configs,
                   volume_dirs>>

\* A request that ValidUser admits enters its handler; here upload_new.
valid_user_admits(t) ==
    /\ \E authorization \in Authorizations : ValidUser(authorization).ok
    /\ upload_new(t)

\* The requests to the management surface of this specification.
AuthRequests ==
    {Request(method, None, ConfigPath, None, authorization, body) :
        method \in {"GET", "PUT"}, authorization \in Authorizations,
        body \in {Some(TomlBody(ProtectedConfig))}}

AuthInit ==
    /\ RegistryInit
    /\ master_key \in {MasterKeyDeserialize(source) : source \in MasterKeySources}
    /\ routing_table = RoutingTableDefault
    /\ installed = RoutingTableDefault
    /\ listed = NoListing
    /\ lock = [readers |-> {}, writer |-> {}]
    /\ configs = <<>>
    /\ volume_dirs = {}
    /\ podman = <<>>
    /\ upstream = <<>>

AuthNext ==
    \E t \in Tasks :
        \/ OneAtATime(t) /\ index_v2(t)
        \/ OneAtATime(t) /\ valid_user_rejects(t)
        \/ OneAtATime(t) /\ valid_user_admits(t)
        \/ OneAtATime(t) /\ (\E request \in AuthRequests : route_request_lock(t, request))
        \/ route_request_unlock(t)
        \/ route_internal(t)
        \/ podman_ps(t)
        \/ load_managed_container(t)
        \/ update_containers_lock(t)
        \/ update_containers_swap(t)
        \/ update_containers_unlock(t)

AuthSpec == AuthInit /\ [][AuthNext]_vars

\* --------------------------------------------------------------- claims
\* The step is one of the request that task t is serving.
StepOf(t) == task'[t] # task[t]

DigestConsistent ==
    \A name \in DOMAIN blobs : DigestDisplay(SHA256(content[blobs[name]])) = name

\* C1: in every reachable state every file of blobs/ has contents whose
\* SHA-256 is its name, and the bytes of a blob that is present never change
\* in a later step, PATCH and finalize on one upload id interleaved included.
C1_BlobsMatchTheirNameForEver ==
    [][/\ DigestConsistent'
       /\ \A name \in DOMAIN blobs :
            /\ name \in DOMAIN blobs'
            /\ content'[blobs'[name]] = content[blobs[name]]]_vars

\* C2: a finalize_upload(id, d) that finds the partial of an existing upload
\* to hash to something else than d fails with DigestMismatch and changes
\* neither the partial nor any blob; and a partial disappears or a blob
\* changes only in the rename of a finalize whose computed hash equalled d,
\* which moves that partial to blobs/<d>.
C2_MismatchLeavesPartialUntouched ==
    [][/\ \A t \in Tasks :
            ( /\ task[t].kind = "finalize" /\ task[t].pc = "hash" /\ StepOf(t)
              /\ UploadExists(task[t].upload)
              /\ SHA256(content[task[t].upload]) # task[t].digest )
            => /\ resp'.err = "DigestMismatch" /\ resp'.status >= 400
               /\ uploads' = uploads /\ content' = content /\ blobs' = blobs
       /\ (blobs' # blobs \/ ~(uploads \subseteq uploads'))
            => \E t \in Tasks :
                 /\ task[t].kind = "finalize" /\ task[t].pc = "rename" /\ StepOf(t)
                 /\ task[t].actual = task[t].digest
                 /\ uploads' = uploads \ {task[t].upload}
                 /\ blobs' = (blob_path(task[t].digest) :> task[t].upload) @@ blobs
                 /\ resp'.status = 201]_vars

C2_Witness ==
    /\ resp.kind = "upload_finalize" /\ resp.err = "DigestMismatch"
    /\ resp.upload \in uploads
    /\ content[resp.upload] # <<>>

\* The digest that a Docker-Content-Digest header names.
HeaderDigest(header) == CHOOSE d \in DigestInputs : ImageDigestDisplay(d) = header

\* C3: after one or more PATCHes on a fresh upload, served one after the
\* other, and a finalize_upload(id, d) that succeeds, blob_reader(d) and the
\* GET of the blob return the PATCH bodies, concatenated in submission order.
C3_RoundTrip ==
    ( /\ resp.kind = "upload_finalize" /\ resp.status = 201
      /\ sequential[resp.upload]
      /\ Len(sent[resp.upload]) >= 1 )
    => /\ get_blob_reader(HeaderDigest(resp.digest))
            = [found |-> TRUE, bytes |-> Flatten(sent[resp.upload])]
       /\ blob_get(HeaderDigest(resp.digest))
            = [status |-> 200, body |-> Flatten(sent[resp.upload])]

C3_Witness ==
    /\ resp.kind = "upload_finalize" /\ resp.status = 201
    /\ sequential[resp.upload]
    /\ Len(sent[resp.upload]) >= 2

\* C4: after every successful PATCH the Range header is "0-<n>" with n the
\* offset of the last byte that the partial holds so far (the bytes of all
\* PATCHes of the upload, minus one).
C4_RangeIsLastByteWritten ==
    (resp.kind = "upload_add_chunk" /\ resp.status = 202)
    => resp.range = Len(content[resp.upload]) - 1

\* C5: a PATCH that carries a Range header and a finalize PUT whose
\* Content-Length is not zero are answered with an error, and neither the
\* partial files nor the blobs change, nor is the request served any further.
C5_UnsupportedShapesRejected ==
    [][( \/ (req'.kind = "upload_add_chunk" /\ req'.hasRange)
         \/ (req'.kind = "upload_finalize" /\ req'.contentLength \notin {-1, 0}) )
       => /\ resp'.status >= 400
          /\ uploads' = uploads /\ content' = content /\ blobs' = blobs
          /\ task' = task]_vars

C5_Witness ==
    /\ req.kind = "upload_add_chunk" /\ req.hasRange
    /\ resp.status >= 400
    /\ \E u \in uploads : content[u] # <<>>

\* C6: a content-store error reaches the client with the status of the error
\* table: UploadNotFound as 404, InvalidManifest and NotATag as 400.
C6_StoreErrorsKeepTheirStatus ==
    /\ resp.err = "UploadDoesNotExit" => resp.status = 404
    /\ resp.err \in {"InvalidManifest", "NotATag"} => resp.status = 400

\* A put_manifest of the bytes with this digest has truncated the manifest
\* file (File::create) and not yet written it.
Rewriting(digest) ==
    \E t \in Tasks :
        task[t].kind = "manifest_put" /\ task[t].pc = "write" /\ task[t].digest = digest

ByDigest(manifest_reference, digest) ==
    [location |-> manifest_reference.location, reference |-> ReferenceDigest(digest)]

C8_TagLinkNeverAbsent ==
    [][\A path \in tagged' :
         /\ path \in DOMAIN links'
         /\ Walk(Parent(path), links'[path]) \in DOMAIN manifests'
         /\ path \in tagged
              => /\ path \in DOMAIN links
                 /\ \/ links'[path] = links[path]
                    \/ \E t \in Tasks :
                         /\ task[t].kind = "manifest_put" /\ task[t].pc = "rename"
                         /\ StepOf(t)
                         /\ path = tag_path(task[t].manifest_reference.location,
                                            task[t].manifest_reference.reference.tag)
                         /\ links'[path] = blob_rel_path(task[t].digest)]_vars

C8_Witness ==
    \E t \in Tasks :
        /\ task[t].kind = "manifest_put" /\ task[t].pc = "rename"
        /\ LET path == tag_path(task[t].manifest_reference.location,
                                task[t].manifest_reference.reference.tag)
           IN  /\ path \in tagged
               /\ path \in DOMAIN links
               /\ links[path] # blob_rel_path(task[t].digest)

\* C9: when a put_manifest of bytes M under tag T is followed by a second
\* put of the same bytes under the same tag, each with no other put in
\* flight when it completes, the second put succeeds, returns the digest
\* that the first one returned, and the tag resolves to the same bytes after
\* it as after the first.
C9_PutIsIdempotent ==
    [][( /\ put'.result # "none"
         /\ \A t \in Tasks : task'[t].kind # "manifest_put"
         /\ last.key = <<put'.manifest_reference, put'.manifest>> )
       => /\ put'.result = "Ok"
          /\ last'.again
          /\ resp'.digest = last.digest
          /\ last'.digest = last.digest
          /\ last'.resolved = last.resolved
          /\ last'.resolved.found]_vars

C9_Witness ==
    /\ put.result = "Ok"
    /\ last.again
    /\ last.key = <<put.manifest_reference, put.manifest>>
    /\ Cardinality(DOMAIN manifests) >= 2

\* C10: the step that completes a manifest PUT with success delivers the
\* manifest-uploaded event exactly once, with the reference that was pushed,
\* when the manifest file and the tag link are in place; a step that ends a
\* PUT with an error of the store delivers none.
C10_HookDeliveredOncePerSuccess ==
    /\ put.result = "Ok"
         => /\ Len(Delivered) = 1
            /\ Delivered[1].manifest_reference = put.manifest_reference
            /\ manifest_path(put.digest) \in DOMAIN manifests
            /\ tag_path(put.manifest_reference.location,
                        put.manifest_reference.reference.tag) \in DOMAIN links
    /\ put.result # "Ok" => Delivered = <<>>

\* The runtime commands of synchronize_container_state.
ReconcileCommands == {"inspect", "rm", "login", "pull", "run"}

\* The hook event that task t is handling in this step.
Reconciled(t) ==
    IF task'[t].kind = "hook" THEN task'[t].manifest_reference
    ELSE task[t].manifest_reference

\* C11: a step of the orchestrator's handler for a manifest reference whose
\* reference is not the tag `prod` (another tag, or a digest) runs none of
\* podman inspect, rm, login, pull and run, and leaves the volume
\* directories as they are.
C11_OnlyProdIsReconciled ==
    [][\A t \in Tasks :
         (/\ StepOf(t)
          /\ "hook" \in {task[t].kind, task'[t].kind}
          /\ Reconciled(t).reference # ReferenceTag(<<"prod">>))
         => /\ \A i \in 1..Len(podman') : podman'[i].command \notin ReconcileCommands
            /\ volume_dirs' = volume_dirs]_vars

\* A handler for a digest reference has got as far as refreshing the routes.
C11_Witness ==
    \E t \in Tasks :
        /\ task[t].kind = "hook"
        /\ task[t].manifest_reference.reference.kind = "digest"
        /\ task[t].pc = "update_swap"

\* C12: the destination that a request is given is the one that the table
\* in place when the request started gives it, that table being the empty
\* one or the one passed to the latest update_containers that had returned
\* by then; and every map the request looked at was that table's map, never
\* one of a table that an update was still putting in place.
C12_RoutedAgainstOneTable ==
    \A t \in Tasks :
        (task[t].kind = "route" /\ task[t].pc = "dispatch")
        => /\ task[t].dest =
                get_destination_uri_from_request(task[t].expect, task[t].request)
           /\ task[t].seen.domain_maps.some
                => task[t].seen.domain_maps.value = task[t].expect.domain_maps
           /\ task[t].seen.path_maps.some
                => task[t].seen.path_maps.value = task[t].expect.path_maps

\* A request has been given a container of a table that an update put in
\* place, while the next update is waiting for the lock or holds it.
C12_Witness ==
    \E t \in Tasks, other \in Tasks :
        /\ task[t].kind = "route"
        /\ task[t].pc = "dispatch"
        /\ task[t].dest.variant = "ReverseProxied"
        /\ task[t].expect # RoutingTableDefault
        /\ task[other].pc \in {"update_lock", "update_swap", "update_unlock"}

\* The latest step ended a request to the reverse proxy with a response.
Answered == resp.kind = "proxy" /\ req.kind = "proxy"

\* C13: a request whose path begins with `/_rockslide/` is never forwarded
\* to a container, whatever its Host header, a Host that is in the domain
\* index of the routing table included.
C13_ManagementNeverForwarded ==
    (req.kind = "proxy" /\ starts_with(req.path, <<"/", "_rockslide", "/">>))
    => upstream = <<>>

\* A request to the management surface that the domain index does not claim.
Management(request) ==
    /\ request.kind = "proxy"
    /\ starts_with(request.path, <<"/", "_rockslide", "/">>)
    /\ ~domain_destination(routing_table, request).some

\* No Authorization header, one that does not parse, or credentials that
\* the master key does not accept.
Unauthenticated(request) ==
    \/ ~request.authorization.some
    \/ ~basic_auth_response(request.authorization.value).some
    \/ ~MasterKeyCheckCredentials(master_key,
                                  basic_auth_response(request.authorization.value).value)

Refreshing(t) ==
    task[t].pc \in {"ps", "load", "update_lock", "update_swap", "update_unlock"}

\* C14: a step of a `/_rockslide/` request that has no Authorization
\* header, an unparseable one, or credentials that the master key does not
\* accept leaves the stored configurations as they are, returns none of
\* them, starts no refresh of the routing table, and if it answers the
\* request the answer is 401.
C14_ManagementFailsClosed ==
    [][(Management(req') /\ Unauthenticated(req'))
       => /\ configs' = configs
          /\ \A t \in Tasks : ~Refreshing(t)'
          /\ resp'.kind = "proxy" => (resp'.status = 401 /\ ~resp'.config.some)]_vars

\* C15: with the master key Locked no step changes the store or a stored
\* configuration, and every response of GET /v2/, of a blob, upload or
\* manifest endpoint and of the management surface is 401, whatever the
\* Authorization header of the request.
C15_LockedAnswers401 ==
    [][master_key.variant = "Locked"
       => /\ <<nextUpload, uploads, content, blobs, manifests, tagDirs, links, configs>>'
               = <<nextUpload, uploads, content, blobs, manifests, tagDirs, links, configs>>
          /\ resp'.kind # "none" => resp'.status = 401]_vars

\* The credentials of the latest request were taken for valid.
Accepted == resp.kind # "none" /\ resp.status \notin {400, 401}

\* C16: when rockslide.master_key is unset or the empty string, so that the
\* key holds no secret, the master key is Locked and no request is taken
\* for authenticated, one with an empty password included.
C16_EmptyKeyIsLocked ==
    master_key.key = <<>> => (master_key.variant = "Locked" /\ ~Accepted)

Matched == get_destination_uri_from_request(routing_table, req)

\* The latest request went to a container that has an http.access map.
Protected ==
    /\ Answered
    /\ Matched.variant = "ReverseProxied"
    /\ Matched.config.http.access.some

\* The latest request has a Basic header with a user of that map and the
\* password that the map has for the user.
Matching ==
    LET header == req.authorization
        map == Matched.config.http.access.value
    IN  /\ header.some
        /\ header.value.scheme = "Basic"
        /\ header.value.credentials.some
        /\ header.value.credentials.value.username \in DOMAIN map
        /\ map[header.value.credentials.value.username]
             = header.value.credentials.value.password

Segments == SelectSeq(split(req.path, "/"), LAMBDA segment : segment # <<>>)

RECURSIVE Joined(_)
Joined(segments) ==
    IF segments = <<>> THEN <<>>
    ELSE IF Len(segments) = 1 THEN segments[1]
    ELSE segments[1] \o <<"/">> \o Joined(Tail(segments))

QueryOf(request) ==
    IF request.query.some THEN <<"?">> \o request.query.value ELSE <<>>

\* The latest request is neither for the management surface nor for a
\* container of the domain index.
ByPath ==
    /\ Answered
    /\ ~starts_with(req.path, <<"/", "_rockslide">>)
    /\ ~domain_destination(routing_table, req).some

InPathIndex ==
    /\ Len(Segments) >= 2
    /\ ImageLocation(Segments[1], Segments[2]) \in DOMAIN routing_table.path_maps

\* http://<container addr>/<remaining segments joined by />, with the
\* trailing slash and the query of the request
PathTarget ==
    LET remaining == SubSeq(Segments, 3, Len(Segments))
    IN  <<"http://">>
        \o routing_table.path_maps[ImageLocation(Segments[1], Segments[2])].host_addr
        \o <<"/">> \o Joined(remaining)
        \o (IF remaining # <<>> /\ ends_with(req.path, <<"/">>) THEN <<"/">> ELSE <<>>)
        \o QueryOf(req)

\* The access map of the container lets the latest request through, and
\* its body is within the limit.
Passes(container) ==
    /\ container.config.http.access.some
         => HashMapCheckCredentials(container.config.http.access.value,
                                    UnverifiedCredentials(req.authorization).creds)
    /\ req.body.some => req.body.value.kind # "large"

\* C19: for a request that is not matched by its Host (and is not for the
\* management surface), if the first two non-empty segments of the path are
\* an image of the path index then whatever is sent upstream goes to
\* http://<container addr>/<remaining non-empty segments joined by />, with
\* a trailing slash if the path had one and segments remain, and with the
\* query unchanged, and it is sent whenever the container's access map and
\* the body limit let the request through; if they are not in the path
\* index, or there are fewer than two, the answer is 404 and nothing is sent.
C19_PathRouting ==
    ByPath
    => IF InPathIndex
       THEN /\ \A i \in 1..Len(upstream) : upstream[i].uri = PathTarget
            /\ Passes(routing_table.path_maps[ImageLocation(Segments[1], Segments[2])])
                 => Len(upstream) = 1
       ELSE resp.status = 404 /\ upstream = <<>>

\* A request with empty segments, a trailing slash and a query has been
\* sent to the container of its image.
C19_Witness ==
    /\ ByPath
    /\ InPathIndex
    /\ req.path = <<"/", "foo", "/", "/", "bar", "/", "x", "/">>
    /\ req.query.some
    /\ upstream # <<>>

\* The Host header of the latest request without its port, in lower case.
HostName ==
    LET colon == rfind(req.host.value, ":")
    IN  to_lowercase(IF colon = 0 THEN req.host.value
                     ELSE SubSeq(req.host.value, 1, colon - 1))

ByDomain ==
    /\ Answered
    /\ ~starts_with(req.path, <<"/", "_rockslide">>)
    /\ req.host.some
    /\ contains(HostName, ".")
    /\ HostName \in DOMAIN routing_table.domain_maps

\* C20: a request that is not for the management surface and whose Host,
\* without its port and in lower case, has a dot and is a key of the domain
\* index is sent to the address of that entry's container with the path and
\* the query it came with, whenever the container's access map and the body
\* limit let it through, and to no other place; upper case letters and a
\* port in the Host header make no difference.
C20_DomainRouting ==
    ByDomain
    => /\ \A i \in 1..Len(upstream) :
            upstream[i].uri = <<"http://">> \o routing_table.domain_maps[HostName].host_addr
                              \o req.path \o QueryOf(req)
       /\ Passes(routing_table.domain_maps[HostName]) => Len(upstream) = 1

\* A request whose Host has upper case letters and a port has been sent to
\* the container of the domain.
C20_Witness ==
    /\ ByDomain
    /\ req.host.value = <<"Example", ".", "COM", ":", "8080">>
    /\ req.query.some
    /\ upstream # <<>>

\* The X-Script-Name headers among the headers of an upstream request.
ScriptNames(headers) ==
    SelectSeq(headers, LAMBDA header : LowerSymbol(header.name) = "x-script-name")

\* C21: the X-Script-Name that a container sees is never the client's: a
\* request routed by its path carries exactly one, `/<repo>/<image>` of the
\* route, a request routed by its Host carries none, whatever X-Script-Name
\* headers the client sent.
C21_ScriptNameIsTheProxys ==
    \A i \in 1..Len(upstream) :
        LET seen == ScriptNames(upstream[i].headers)
        IN  /\ ByPath => seen = <<Header("x-script-name",
                                         <<"/">> \o Segments[1] \o <<"/">> \o Segments[2])>>
            /\ ByDomain => seen = <<>>

\* The latest request came with an X-Script-Name header of the client.
ClientScriptName == ScriptNames(req.headers) # <<>>

\* A path-routed request with an X-Script-Name of the client and a header
\* that is passed on has been sent upstream.
C21_Witness ==
    /\ upstream # <<>>
    /\ ClientScriptName
    /\ ByPath
    /\ Len(upstream[1].headers) = 2

\* The hook whose `podman run` the latest step issued, and the mounts of
\* that command, each `<host path>:<container path>`.
Launched(t) ==
    /\ task[t].kind = "hook"
    /\ task[t].pc = "ps"
    /\ podman # <<>>
    /\ podman[1].command = "run"

Mounts == SubSeq(podman[1].args, 3, Len(podman[1].args))

HostPathOf(mount) == split_once(mount, ":").value[1]

\* volumes/<repo>/<image>/<reference> of a manifest reference
VolumeRoot(manifest_reference) ==
    <<"/", "runtime", "/", "volumes", "/">> \o manifest_reference.location.repository
    \o <<"/">> \o manifest_reference.location.image
    \o <<"/">> \o manifest_reference.reference.tag

\* What a host path has behind the "/" that follows the volume root.
Below(root, path) == SubSeq(path, Len(root) + 2, Len(path))

\* A host path that is the volume root followed by "/" and names none of
\* which is `..`; strictly inside when there is such a name.
Inside(root, path) ==
    /\ starts_with(path, root \o <<"/">>)
    /\ \A i \in 1..Len(split(Below(root, path), "/")) :
           split(Below(root, path), "/")[i] \notin {<<"..">>, <<".">>}

StrictlyInside(root, path) ==
    /\ Inside(root, path)
    /\ Below(root, path) # <<>>
    /\ \A i \in 1..Len(split(Below(root, path), "/")) :
           split(Below(root, path), "/")[i] # <<>>

\* A volume key that has a `..` between its separators, or is a relative
\* path that begins with `.`.
IllegalKey(key) ==
    LET pieces == split(key, "/")
    IN  \/ \E i \in 1..Len(pieces) : pieces[i] = <<"..">>
        \/ (pieces # <<>> /\ pieces[1] = <<".">>)

LegalKeys(keys) == SelectSeq(keys, LAMBDA key : ~IllegalKey(key))

\* What a path has between its separators.
Pieces(path) == {split(path, "/")[i] : i \in 1..Len(split(path, "/"))}

\* C22 as claimed: every mount of a `podman run` has a host path strictly
\* inside volumes/<repo>/<image>/<reference>/, and a key with a `..`, `.`,
\* root or prefix component yields no mount.
C22_MountsStrictlyInside ==
    \A t \in Tasks :
        Launched(t)
        => /\ Len(Mounts) = Len(LegalKeys(task[t].keys))
           /\ \A i \in 1..Len(Mounts) :
                 StrictlyInside(VolumeRoot(task[t].manifest_reference),
                                HostPathOf(Mounts[i]))

\* C22, amended: every mount of a `podman run` has a host path that is
\* inside volumes/<repo>/<image>/<reference>/ or, for a key without a
\* normal component such as `/`, is that directory itself; no host path
\* has a `..`, and a key with a `..` component, or a relative key that
\* starts with `.`, yields no mount.
C22_MountsInside ==
    \A t \in Tasks :
        Launched(t)
        => /\ Len(Mounts) = Len(LegalKeys(task[t].keys))
           /\ \A i \in 1..Len(Mounts) :
                 LET path == HostPathOf(Mounts[i])
                     root == VolumeRoot(task[t].manifest_reference)
                 IN  /\ Inside(root, path)
                     /\ ~StrictlyInside(root, path)
                          => /\ path = root \o <<"/">>
                             /\ \A piece \in Pieces(LegalKeys(task[t].keys)[i]) :
                                   piece \in {<<>>, <<".">>}

\* A container has been started for an image that declares a key with
\* `..` next to a legal key, with one mount.
C22_Witness ==
    \E t \in Tasks :
        /\ Launched(t)
        /\ \E k \in 1..Len(task[t].keys) : IllegalKey(task[t].keys[k])
        /\ Len(Mounts) = 1

\* A request to /_rockslide/config/<repo>/<image>/prod, and the manifest
\* reference that it names.
ConfigRequest(request) ==
    /\ request.kind = "proxy"
    /\ starts_with(request.path, <<"/", "_rockslide", "/", "config", "/">>)
    /\ Len(split(SubSeq(request.path, 6, Len(request.path)), "/")) = 3
    /\ split(SubSeq(request.path, 6, Len(request.path)), "/")[3] = <<"prod">>

ConfigReference(request) ==
    LET parts == split(SubSeq(request.path, 6, Len(request.path)), "/")
    IN  ManifestReferenceNew(ImageLocation(parts[1], parts[2]), ReferenceTag(parts[3]))

\* The configuration that the body of a request is a TOML document of.
SentConfig(request) ==
    IF opt_body(request.body).some THEN toml_from_str(opt_body(request.body).value)
    ELSE None

\* The latest request was an authenticated GET, or an authenticated PUT of
\* a valid TOML configuration, of a configuration URL.
ConfigRead == Answered /\ ConfigRequest(req) /\ ~Unauthenticated(req) /\ req.method = "GET"

ConfigWritten ==
    /\ Answered /\ ConfigRequest(req) /\ ~Unauthenticated(req)
    /\ req.method = "PUT"
    /\ SentConfig(req).some

\* The answer is 200 with a TOML text of the configuration on disk.
AnswersStored ==
    /\ resp.status = 200
    /\ resp.config.some
    /\ toml_from_str(resp.config.value) = Some(load_config(configs, ConfigReference(req)))

\* C23: an authenticated PUT of a valid TOML configuration to
\* /_rockslide/config/<repo>/<image>/prod answers 200 with the stored
\* configuration, which is the one that was sent, and an authenticated GET
\* of that URL answers 200 with the configuration that is stored, so that
\* a GET right after the PUT returns what the PUT returned.
C23_ManagementRoundTrip ==
    /\ ConfigWritten => (AnswersStored /\ toml_from_str(resp.config.value) = SentConfig(req))
    /\ ConfigRead => AnswersStored

\* An authenticated request below /_rockslide/ that is not a GET or a PUT
\* of /_rockslide/config/<repo>/<image>/prod.
OtherManagement(request) ==
    /\ request.kind = "proxy"
    /\ starts_with(request.path, <<"/", "_rockslide", "/">>)
    /\ ~Unauthenticated(request)
    /\ (~ConfigRequest(request) \/ request.method \notin {"GET", "PUT"})

\* C24: an authenticated management request whose path is not
\* /_rockslide/config/<repo>/<image>/<reference> with three segments, whose
\* reference is not `prod`, or whose method is neither GET nor PUT, is
\* answered with 404, and no step of it changes a stored configuration.
C24_OtherManagementIs404 ==
    [][OtherManagement(req')
       => /\ configs' = configs
          /\ resp'.kind = "proxy" => resp'.status = 404]_vars

\* A manifest reference under which no put_manifest has stored a manifest:
\* a tag that none has succeeded for, a digest that none has returned.
NeverStored(manifest_reference) ==
    IF manifest_reference.reference.kind = "tag"
    THEN tag_path(manifest_reference.location, manifest_reference.reference.tag)
           \notin tagged
    ELSE manifest_reference.reference.digest \notin returned

\* C25: a GET of a manifest by a tag or a digest under which none was ever
\* stored with success answers 404, and so does a GET or a HEAD of a blob
\* whose digest was never finalized.
C25_MissingIs404 ==
    /\ (resp.kind = "manifest_get" /\ NeverStored(req.manifest_reference))
          => resp.status = 404
    /\ (resp.kind \in {"blob_get", "blob_check"}
        /\ blob_path(req.digest) \notin DOMAIN blobs)
          => resp.status = 404

\* The tag references of the images, and the file that the link of one names.
TagReferences == {r \in ManifestReferences : r.reference.kind = "tag"}

TagLink(manifest_reference) ==
    tag_path(manifest_reference.location, manifest_reference.reference.tag)

LinkTarget(manifest_reference) ==
    Walk(Parent(TagLink(manifest_reference)), links[TagLink(manifest_reference)])

Resolves(manifest_reference) ==
    /\ TagLink(manifest_reference) \in DOMAIN links
    /\ LinkTarget(manifest_reference) \in DOMAIN manifests

\* C26: in every reachable state, the states in which another put_manifest
\* is under way included, a tag whose link resolves is read by get_manifest
\* as bytes whose SHA-256 is the digest that the target of the link names.
C26_TagResolvesToItsDigest ==
    \A manifest_reference \in TagReferences :
        Resolves(manifest_reference)
        => /\ get_manifest(manifest_reference).found
           /\ DigestDisplay(SHA256(get_manifest(manifest_reference).bytes))
                = LinkTarget(manifest_reference)[Len(LinkTarget(manifest_reference))]

\* The manifest that get_manifest finds under a digest.
StoredUnder(manifest_reference, digest) ==
    get_manifest(ByDigest(manifest_reference, digest))

\* The latest step has completed a put_manifest that another put to the
\* same tag, of another manifest, has overtaken, and no put is in flight.
RaceOver ==
    /\ put.result = "Ok"
    /\ put.overtook \ {put.digest} # {}
    /\ \A t \in Tasks : task[t].kind # "manifest_put"

\* C27: when two put_manifest calls to one tag of one image overlap, with
\* different manifests, and both succeed, each rename leaves the tag linked
\* to the manifest of its own put, so that after the later one the tag
\* resolves to exactly that manifest; both manifests are found under their
\* digests; and no link is left but those of the tags that were put.
C27_LastRenameWins ==
    /\ put.result = "Ok"
         => links[TagLink(put.manifest_reference)] = blob_rel_path(put.digest)
    /\ RaceOver
         => /\ get_manifest(put.manifest_reference)
                 = [found |-> TRUE, bytes |-> put.manifest]
            /\ \A digest \in put.overtook \cup {put.digest} :
                   /\ StoredUnder(put.manifest_reference, digest).found
                   /\ SHA256(StoredUnder(put.manifest_reference, digest).bytes) = digest
            /\ DOMAIN links \subseteq tagged

C27_Witness ==
    /\ RaceOver
    /\ Cardinality(DOMAIN manifests) >= 2

\* The upload id that the request of task t is about.
UploadOf(t) ==
    IF task[t].kind \in {"patch", "finalize"} THEN task[t].upload
    ELSE task'[t].upload

\* The blobs of upload u for task t: the one that the finalize of task t
\* names, and the one that a finalize of u has made of its file.
BlobOf(t, u, name) ==
    \/ task[t].kind = "finalize" /\ name = blob_path(task[t].digest)
    \/ name \in DOMAIN blobs /\ blobs[name] = upload_path(u)

\* C28: a step of a PATCH or of a finalize of one upload id, when other
\* requests on that id are in flight as well, neither changes, creates nor
\* removes the partial file of another upload id, and neither changes,
\* creates nor removes a blob other than the one that the finalize names.
C28_OtherUploadsUntouched ==
    [][\A t \in Tasks :
         (StepOf(t) /\ UploadOf(t) # 0)
         => LET u == UploadOf(t)
            IN  /\ \A v \in UploadIds \ {u} :
                     /\ content'[v] = content[v]
                     /\ v \in uploads' <=> v \in uploads
                /\ \A name \in DOMAIN blobs \cup DOMAIN blobs' :
                     \/ BlobOf(t, u, name)
                     \/ /\ name \in DOMAIN blobs /\ name \in DOMAIN blobs'
                        /\ blobs'[name] = blobs[name]
                        /\ content'[blobs'[name]] = content[blobs[name]]]_vars

C28_Witness ==
    \E t \in Tasks, other \in Tasks, v \in UploadIds :
        /\ t # other
        /\ task[t].kind = "patch" /\ task[t].completed > 0
        /\ task[other].kind \in {"patch", "finalize"}
        /\ task[other].upload = task[t].upload
        /\ v # task[t].upload
        /\ content[v] # <<>>
        /\ v \in uploads \/ \E name \in DOMAIN blobs : blobs[name] = v

\* The steps that a put_manifest in flight has still to take.
PutStep(t) ==
    \/ put_manifest_write(t)
    \/ put_manifest_mkdir(t)
    \/ put_manifest_symlink(t)
    \/ put_manifest_rename(t)

\* The handler of a manifest-uploaded event is between its commands.
Reconciling(t) ==
    task[t].kind = "hook" /\ task[t].pc \in {"rm", "login", "pull", "volumes", "run"}

Successor(pc) ==
    CASE pc = "inspect" -> {"rm"}
      [] pc = "rm" -> {"login"}
      [] pc = "login" -> {"pull"}
      [] pc = "pull" -> {"volumes", "run"}
      [] pc = "volumes" -> {"volumes", "run"}
      [] pc = "run" -> {"ps"}

\* C30: the handler of a push of `prod` issues podman inspect, rm, login,
\* pull and run in this order, one command a step; after a command that
\* failed it is past the sequence (at podman ps) and never comes back to that
\* command or to a later one; and no step of it, a failing one included,
\* changes a manifest file or a tag link of the store.
C30_ReconcileInOrder ==
    [][\A t \in Tasks :
         /\ (task[t].kind = "idle" /\ task'[t].kind = "hook")
              => /\ task'[t].pc \in {"inspect", "ps"}
                 /\ podman' = <<>>
         /\ (task[t].kind = "hook" /\ StepOf(t))
              => /\ manifests' = manifests /\ links' = links /\ tagged' = tagged
                 /\ task[t].pc \in ReconcileCommands
                      => /\ Len(podman') = 1
                         /\ podman'[1].command = task[t].pc
                         /\ task'[t].kind = "hook"
                         /\ task'[t].pc \in (IF podman'[1].failed THEN {"ps"}
                                              ELSE Successor(task[t].pc))
                 /\ task[t].pc \notin ReconcileCommands
                      => /\ \A i \in 1..Len(podman') :
                              podman'[i].command \notin ReconcileCommands
                         /\ task[t].pc = "volumes"
                              => /\ task'[t].kind = "hook"
                                 /\ task'[t].pc \in Successor("volumes") \cup {"ps"}
                         /\ (task[t].pc # "volumes" /\ task'[t].kind = "hook")
                              => task'[t].pc \notin ReconcileCommands \cup {"volumes"}]_vars

C30_Witness ==
    /\ podman # <<>>
    /\ podman[1].command \in {"rm", "login", "pull"}
    /\ podman[1].failed
    /\ \E t \in Tasks : task[t].kind = "hook" /\ task[t].pc = "ps"
    /\ tagged # {}
    /\ DOMAIN manifests # {}

\* The places of a handler inside updated_published_set.
PublishingPlaces == {"ps", "load", "update_lock", "update_swap", "update_unlock"}

\* C31: the handler of a manifest-uploaded event starts at the
\* reconciliation, or at updated_published_set when the reference is not the
\* production tag; it enters updated_published_set once, from the
\* reconciliation, whether that went through or was cut short by an error,
\* with podman ps as its first command; and it ends nowhere but inside it.
C31_EndsWithPublishedSet ==
    [][\A t \in Tasks :
         /\ (task[t].kind = "idle" /\ task'[t].kind = "hook")
              => task'[t].pc = IF IsProduction(task'[t].manifest_reference)
                               THEN "inspect" ELSE "ps"
         /\ (task[t].kind = "hook" /\ StepOf(t))
              => /\ task'[t].kind = "idle"
                      => task[t].pc \in {"ps", "load", "update_unlock"}
                 /\ task'[t].kind \in {"idle", "hook"}
                 /\ task[t].pc = "ps"
                      => podman' = <<[command |-> "ps", args |-> <<>>]>>
                 /\ task[t].pc # "ps"
                      => \A i \in 1..Len(podman') : podman'[i].command # "ps"
                 /\ (task'[t].kind = "hook" /\ task'[t].pc = "ps")
                      => task[t].pc \in ReconcileCommands \cup {"volumes"}
                 /\ (task'[t].kind = "hook" /\ task[t].pc \in PublishingPlaces)
                      => task'[t].pc \in PublishingPlaces \ {"ps"}]_vars

C31_Witness ==
    /\ podman # <<>>
    /\ podman[1].command \in ReconcileCommands
    /\ podman[1].failed
    /\ \E t \in Tasks : task[t].kind = "hook" /\ task[t].pc = "ps"
    /\ volume_dirs # {}

\* The latest step answered an authenticated PUT of a configuration with
\* 200 and the configuration that it stored.
PutReturned == ConfigWritten /\ resp.status = 200 /\ resp.config.some

\* The containers of an image location that requests are routed to.
Routed(location) ==
    {routing_table.path_maps[key] : key \in {k \in DOMAIN routing_table.path_maps :
        routing_table.path_maps[k].manifest_reference.location = location}}
    \cup {routing_table.domain_maps[key] : key \in {k \in DOMAIN routing_table.domain_maps :
        routing_table.domain_maps[k].manifest_reference.location = location}}

\* C32: when a management PUT of a configuration for an image has answered
\* 200, the container of that image that requests are routed to carries the
\* configuration that is stored now, so that the credentials of the requests
\* to come are checked against the new http.access map.
C32_NewMapInForce ==
    PutReturned
    => \A container \in Routed(ConfigReference(req).location) :
          container.config = load_config(configs, ConfigReference(req))

\* The place in the list S of the last container with path key `location`,
\* and of the last one with a dot in its repository and domain key `domain`.
LastAt(S, location) ==
    CHOOSE i \in 1..Len(S) :
        /\ S[i].manifest_reference.location = location
        /\ \A j \in (i + 1)..Len(S) : S[j].manifest_reference.location # location

Dotted(S) ==
    {i \in 1..Len(S) : contains(S[i].manifest_reference.location.repository, ".")}

LastDottedAt(S, domain) ==
    CHOOSE i \in Dotted(S) :
        /\ to_lowercase(S[i].manifest_reference.location.repository) = domain
        /\ \A j \in Dotted(S) :
              j > i => to_lowercase(S[j].manifest_reference.location.repository) # domain

\* The table T is what the claim says from_containers makes of the list S.
TableOf(S, T) ==
    /\ DOMAIN T.path_maps = {S[i].manifest_reference.location : i \in 1..Len(S)}
    /\ \A location \in DOMAIN T.path_maps :
          T.path_maps[location] = S[LastAt(S, location)]
    /\ DOMAIN T.domain_maps
          = {to_lowercase(S[i].manifest_reference.location.repository) : i \in Dotted(S)}
    /\ \A domain \in DOMAIN T.domain_maps :
          T.domain_maps[domain] = S[LastDottedAt(S, domain)]

\* C33: the table that update_containers builds from a list of containers
\* has the path key (repository, image) for every container of the list, the
\* domain key lowercase(repository) for exactly those whose repository has a
\* dot, no other key, and under each key the last container of the list
\* that has it.
C33_FromContainers ==
    \A t \in Tasks :
        (task[t].kind = "hook"
         /\ task[t].pc \in {"update_lock", "update_swap", "update_unlock"})
        => TableOf(task[t].running, task[t].built)

C33_Witness ==
    \E t \in Tasks :
        /\ task[t].kind = "hook" /\ task[t].pc = "update_lock"
        /\ Len(task[t].running) = 3
        /\ Cardinality(DOMAIN task[t].built.path_maps) = 2
        /\ Cardinality(DOMAIN task[t].built.domain_maps) = 1
        /\ task[t].running[1].manifest_reference.location
             = task[t].running[3].manifest_reference.location
        /\ task[t].running[1] # task[t].running[3]

\* A request task that has its destination and has not answered yet: it is
\* about to check credentials, read the body and call the container.
Dispatching(t) == task[t].kind = "route" /\ task[t].pc = "dispatch"

\* C34: the read lock of the routing table is held by a request task only
\* while it computes its destination; a task that checks credentials, reads
\* the body or calls the container holds no lock, and an update_containers
\* call that cannot take the write lock is kept out by a task that computes
\* a destination or by another update_containers, never by such a task.
C34_ReadLockOnlyWhileRouting ==
    \A t \in Tasks :
        /\ t \in lock.readers => (task[t].kind = "route" /\ task[t].pc = "locked")
        /\ Dispatching(t) => t \notin lock.readers
        /\ (task[t].pc = "update_lock" /\ ~ENABLED update_containers_lock(t))
           => \E u \in Tasks \ {t} :
                 task[u].pc \in {"locked", "update_swap", "update_unlock"}

C34_Witness ==
    \E t, u \in Tasks :
        /\ Dispatching(t)
        /\ task[t].dest.variant = "ReverseProxied"
        /\ task[u].pc = "update_lock"
        /\ ENABLED update_containers_lock(u)

\* A task that walks a listing of podman ps, or has walked it.
Listing(t) == task[t].kind = "hook" /\ task[t].pc \in {"load", "update_lock"}

\* The containers of the listing of task t that it has looked at, and of
\* these the ones with a name that starts with "rockslide-".
Seen(t) == 1..(task[t].index - 1)

SeenManaged(t) == {i \in Seen(t) : Managed(task[t].listing[i])}

\* C35: the name rockslide-<repository>-<image> of a listed container is
\* parsed back to the same (repository, image), with or without a `-` in
\* either part, and only containers with a name that starts with
\* `rockslide-` are among the containers to publish.
C35_NameRoundTrip ==
    \A t \in Tasks :
        Listing(t)
        => /\ \A i \in 1..Len(task[t].listing) : \A location \in StartedLocations :
                 task[t].listing[i].names = <<ContainerName(location)>>
                 => image_location(task[t].listing[i].names) = Some(location)
           /\ Len(task[t].running) <= Cardinality(SeenManaged(t))

\* The put of task t, in the given task table, names a digest.
DigestPut(tasks, t) ==
    /\ tasks[t].kind = "manifest_put"
    /\ tasks[t].manifest_reference.reference.kind = "digest"

\* C36: no step of a put_manifest by a digest reference changes a file of
\* manifests/, a tag directory or a link, and the put ends with NotATag.
C36_DigestPutChangesNothing ==
    [][\A t \in Tasks :
          (StepOf(t) /\ (DigestPut(task, t) \/ DigestPut(task', t)))
          => /\ manifests' = manifests
             /\ links' = links
             /\ tagDirs' = tagDirs
             /\ ~DigestPut(task', t) => put'.result = "NotATag"]_vars

\* A finalize_upload of upload u has succeeded: its file is a blob.
Finalized(u) == \E name \in DOMAIN blobs : blobs[name] = upload_path(u)

\* The step receives a PATCH or a finalize PUT and answers it for upload u.
AnsweredAtOnce(u) ==
    /\ req'.kind \in {"upload_add_chunk", "upload_finalize"}
    /\ task' = task
    /\ resp'.upload = u

\* The step takes up a PATCH or a finalize PUT for upload u.
TakenUp(u) ==
    \E t \in Tasks :
        /\ task[t].kind = "idle"
        /\ task'[t].kind \in {"patch", "finalize"}
        /\ task'[t].upload = u

\* C37: once a finalize_upload of an upload has succeeded its partial is
\* gone, every PATCH and finalize PUT that arrives for it is answered with
\* UploadDoesNotExit, no step changes the bytes of its blob, and no step of
\* a request for it changes blobs/.
C37_FinalizationIsTerminal ==
    [][\A u \in UploadIds :
          Finalized(u)
          => /\ ~UploadExists(u)
             /\ ~TakenUp(u)
             /\ AnsweredAtOnce(u) => resp'.err = "UploadDoesNotExit"
             /\ content'[upload_path(u)] = content[upload_path(u)]
             /\ (\E t \in Tasks : StepOf(t) /\ task[t].upload = u) => blobs' = blobs]_vars

\* Task t is in updated_published_set and has fetched its whole listing.
Fetched(t) ==
    /\ task[t].pc \in {"update_lock", "update_swap", "update_unlock"}
    /\ \A i \in 1..Len(task[t].listing) : ~load_fails(task[t].listing[i], configs)

Installing(t) == StepOf(t) /\ task[t].pc \in {"update_swap", "update_unlock"}

\* C39: of two updated_published_set calls that run side by side, the one
\* with the older listing of podman ps never puts its table in place after
\* the one with the newer listing has: no table is put in place from a
\* listing that is older than the listing of a table put in place before.
C39_NewerListingWins ==
    [][\A t \in Tasks : Installing(t) => t \notin listed.outdated]_vars

\* The container of the listing that a published container was made from
\* shows an image with the tag `prod`.
CarriesProd(listing, container) ==
    \E i \in 1..Len(listing) :
        /\ manifest_reference_of(listing[i]) = Some(container.manifest_reference)
        /\ ends_with(listing[i].image, <<":">> \o production_tag)

\* C40: every turn of synchronize_all for a managed container whose image
\* is `...:prod` takes its reference for the production tag and starts
\* the command sequence with podman inspect.
C40_ListedProdIsReconciled ==
    [][\A t \in Tasks :
          (StepOf(t) /\ task[t].pc = "synchronize"
           /\ CarriesProd(task[t].listing, task[t].running[task[t].index]))
          => task'[t].pc = "inspect"]_vars
====
